---- MODULE Spec2Model ----
(***************************************************************************)
(* WhistleChain off-chain coordinator: the commit-reveal verification      *)
(* engine (backend/services/verification.py), the resolution engine        *)
(* (backend/services/resolution.py) and the audit engine                   *)
(* (backend/services/audit_trail.py).                                      *)
(*                                                                         *)
(* Every HTTP handler of backend/api/main.py is an `async def` that calls  *)
(* the synchronous service function without awaiting anything, so each     *)
(* service call runs to completion on the event loop: one action per call. *)
(*                                                                         *)
(* Numbers that the code keeps as floats rounded to 3 decimals             *)
(* (credibility_weight, consistency_score) are kept in thousandths;        *)
(* vote_breakdown percentages rounded to 1 decimal are kept in tenths of   *)
(* a percent.                                                              *)
(***************************************************************************)
EXTENDS Integers, Sequences, FiniteSets, TLC

\* ------------------------------------------------------------------------
\* Program constants (verification.py:64-81)
MIN_INSPECTORS == 3
\* CONSENSUS_THRESHOLD = 0.67, kept as the fraction ThresholdNum/ThresholdDen
ThresholdNum == 67
ThresholdDen == 100
VERDICT_AUTHENTIC == 1
VERDICT_FAKE == 2
VERDICT_INCONCLUSIVE == 3
VERDICT_LABELS == {VERDICT_AUTHENTIC, VERDICT_FAKE, VERDICT_INCONCLUSIVE}
DefaultWindowHours == 72
\* verification.py:750: the weight decays once total_votes >= 3
WeightDecayMinVotes == 3
\* verification.py:753: max(0.1, ...), in thousandths
MinCredibilityWeight == 100
\* verification.py:138: the weight of a new inspector, in thousandths
FullCredibilityWeight == 1000

VERIFICATION_WINDOW_HOURS(cat) ==
    CASE cat = "FINANCIAL" -> 72
      [] cat = "CONSTRUCTION" -> 168
      [] cat = "FOOD" -> 48
      [] cat = "ACADEMIC" -> 72
      [] OTHER -> DefaultWindowHours

\* ------------------------------------------------------------------------
\* Bounds of the model
\* finalize_verification is explored while no revealing inspector has
\* reached this many total_votes
MaxVotes == 4
\* the publication queue holds at most this many items
MaxQueue == 3
\* the submit_evidence calls handed to the ledger are at most MaxSubmits
MaxSubmits == 3

\* Inputs of the model
EvidenceIds == {"EVD-2026-00001"}
\* addresses that call the service; INSP4 never registers under Spec, so it
\* is an address outside every panel
Inspectors == {"INSP1", "INSP2", "INSP3", "INSP4"}
Registrants == {"INSP1", "INSP2", "INSP3"}
CategoryInputs == {"FINANCIAL"}
\* specializations each inspector registers with
SpecializationsOf(a) == IF a = "INSP4" THEN {"FOOD"} ELSE {"FINANCIAL"}
\* verdict inputs: the three legal verdicts and one outside the range
VerdictInputs == {1, 2, 3, 4}
\* nonces as UTF-8 byte strings: inspectors commit with "n" and may try to
\* reveal with "n" or "n1"
CommitNonces == {<<110>>}
Nonces == {<<110>>, <<110, 49>>}
\* justification_ipfs inputs as character strings (32 is a blank):
\* "", "  Qm1  " and "QmAb1"
JustificationInputs == {<<>>,
                        <<32, 32, 81, 109, 49, 32, 32>>,
                        <<81, 109, 65, 98, 49>>}

None == "None"
NoTime == -1
NoBreakdown == [AUTHENTIC |-> -1, FAKE |-> -1, INCONCLUSIVE |-> -1]
NoResolution == [verification_verdict |-> None, resolution_action |-> None,
                 resolution_code |-> -1, stake_action |-> None,
                 resolved_at |-> NoTime, on_chain_tx |-> None,
                 on_chain_error |-> None,
                 vote_breakdown |-> NoBreakdown, inspector_count |-> -1]
NoHash == [alg |-> None, data |-> <<>>]
EmptyMap == [x \in {} |-> 0]

VARIABLES
    now,                    \* int(time.time())
    configured,             \* EVIDENCE_REGISTRY_APP_ID and ADMIN_PRIVATE_KEY set
    inspector_registry,     \* _inspector_registry: address -> profile
    inspector_reputation,   \* _inspector_reputation: address -> scores
    verification_sessions,  \* _verification_sessions: evidence_id -> session
    resolution_records,     \* _resolution_records: evidence_id -> record
    audit_records,          \* _audit_records / _published_evidence
    submission_records,     \* _submission_records: evidence_id -> record
    bounty_payouts,         \* _bounty_payouts: evidence_id -> record
    publication_queue,      \* _publication_queue: the scheduled publications, in order
    ledger,                 \* the application calls submitted to the ledger, in order
    requests,               \* POST /resolution/resolve requests in flight
    last                    \* the last service call and what it returned

vars == <<now, configured, inspector_registry, inspector_reputation,
          verification_sessions, resolution_records, audit_records,
          submission_records, bounty_payouts, publication_queue, ledger, requests,
          last>>

\* the tables of submission_store.py, bounty_manager.py and publication_bot.py
\* and the request tasks
other_stores == <<submission_records, bounty_payouts, publication_queue, requests>>

\* ------------------------------------------------------------------------
\* Arithmetic helpers

\* Python round() of the fraction n/d to an integer (ties to even)
RoundHalfEven(n, d) ==
    LET q == n \div d
        r == n % d
    IN  IF 2 * r < d THEN q
        ELSE IF 2 * r > d THEN q + 1
        ELSE IF q % 2 = 0 THEN q ELSE q + 1

Max(a, b) == IF a >= b THEN a ELSE b
Min(a, b) == IF a <= b THEN a ELSE b

RECURSIVE Pow(_, _)
Pow(b, e) == IF e = 0 THEN 1 ELSE b * Pow(b, e - 1)

\* int.to_bytes(8, "big"): defined for 0 <= v < 2^64, OverflowError otherwise.
\* The verdicts of the model are below 2^31, so the four leading bytes are 0
\* and the upper limit is never reached.
To_bytes8(v) == [k \in 1..8 |-> IF k <= 4 THEN 0
                                ELSE (v \div Pow(256, 8 - k)) % 256]
To_bytes8_ok(v) == v >= 0

\* hashlib.sha256(data).hexdigest(): SHA-256 is taken as collision free, so a
\* digest is identified by the exact byte string that was hashed
Sha256Hex(data) == [alg |-> "sha256", data |-> data]

\* verification.py:702-718 (commit_hash field of the result)
generate_commit_hash(verdict, nonce) == Sha256Hex(To_bytes8(verdict) \o nonce)

\* commit_hash inputs: what generate_commit_hash hands an inspector
CommitHashInputs == {generate_commit_hash(v, n) : v \in VerdictInputs, n \in CommitNonces}

\* str.strip() on a character string
RECURSIVE LStrip(_)
LStrip(s) == IF s # <<>> /\ Head(s) = 32 THEN LStrip(Tail(s)) ELSE s
RECURSIVE RStrip(_)
RStrip(s) == IF s # <<>> /\ s[Len(s)] = 32 THEN RStrip(SubSeq(s, 1, Len(s) - 1)) ELSE s
Strip(s) == RStrip(LStrip(s))

\* ------------------------------------------------------------------------
\* Call records
NoArgs == [category |-> None, stake |-> -1]
CallH(op, e, a, res, expected, computed) ==
    [op |-> op, evidence_id |-> e, inspector |-> a, result |-> res,
     expected_hash |-> expected, computed_hash |-> computed, args |-> NoArgs,
     due |-> <<>>]
Call(op, e, a, res) == CallH(op, e, a, res, NoHash, NoHash)
\* a call of the stake checks, with the category and the stake it was given
CallA(op, e, res, category, stake) ==
    [Call(op, e, None, res) EXCEPT !.args = [category |-> category, stake |-> stake]]
\* a call of check_pending_publications, with the list it returned
CallD(op, due) == [Call(op, None, None, "checked") EXCEPT !.due = due]
NoCall == Call(None, None, None, None)

HasSession(e) == e \in DOMAIN verification_sessions

\* dict assignment d[k] = v
Put(d, k, v) == [x \in DOMAIN d \cup {k} |-> IF x = k THEN v ELSE d[x]]

\* what a ledger submission can come to when the application id and the admin
\* key are configured: a transaction id, or an exception (node rejection,
\* confirmation timeout) that the caller turns into an annotation
LedgerOutcomes == IF configured THEN {"tx", "error"} ELSE {None}

\* one application call handed to the ledger client: the method name in
\* app_args[0], the evidence the box key names, and the status the call carries
\* (a status code for resolve_evidence, a status text for the other methods);
\* `outcome` is what came of it, a transaction id or an exception
LedgerCall(method, evidence_id, status_code, status) ==
    [method |-> method, evidence_id |-> evidence_id,
     status_code |-> status_code, status |-> status, outcome |-> None,
     amount |-> 0]

\* the amount a call moves or names: the payment grouped with a
\* submit_evidence call, ApplicationArgs[4] of a resolve_evidence call
Paying(call, amount) == [call EXCEPT !.amount = amount]

\* resolution.py:218-225: the box a call names is the number after the last
\* "-" of the evidence id; the year of the id is not part of the key
make_evidence_box_key(evidence_id) ==
    CASE evidence_id = "EVD-2026-00001" -> 1
      [] evidence_id = "EVD-2027-00001" -> 1
      [] evidence_id = "EVD-2026-00002" -> 2
      [] evidence_id = "EVD-2026-00003" -> 3
      [] evidence_id = "EVD-2026-00004" -> 4
      [] evidence_id = "EVD-2026-00005" -> 5
      [] evidence_id = "EVD-2026-00006" -> 6
      [] evidence_id = "EVD-2026-00007" -> 7

\* evidence_registry.py:369-379: a box exists once a submit_evidence call of
\* its key was approved; no method deletes a box
BoxExists(evidence_id) ==
    \E i \in 1..Len(ledger) :
        /\ ledger[i].method = "submit_evidence"
        /\ ledger[i].outcome = "tx"
        /\ make_evidence_box_key(ledger[i].evidence_id) = make_evidence_box_key(evidence_id)

\* the annotations a ledger outcome leaves on the record: the transaction id
\* under the *_tx key, str(e) of the exception under the *_error key
TxId(chain) == IF chain = "tx" THEN "tx" ELSE None

\* the exception swallowed without an annotation
LedgerError_Dropped(chain) == None

LedgerError(chain) == IF chain \in {"error", "rejected"} THEN chain ELSE None

\* evidence_registry.py:748-780: the branch the approval program takes on
\* ApplicationArgs[2] of a resolve_evidence call; `err` fails the transaction
method_resolve_evidence(status_code) ==
    CASE status_code = 1 -> "resolve_verified"
      [] status_code = 3 -> "resolve_rejected"
      [] OTHER -> "err"

\* what a resolve_evidence call can come to: a transaction id when the program
\* approves it, the program's rejection, or an exception of the client (node
\* not reachable, confirmation timeout) whatever the program would do
ResolveOutcomes(evidence_id, status_code) ==
    IF ~configured THEN {None}
    ELSE IF ~BoxExists(evidence_id) \/ method_resolve_evidence(status_code) = "err"
    THEN {"rejected", "error"}
    ELSE {"tx", "error"}

\* `if app_id and admin_private_key:` - the call is submitted only when both are set
Submitted(chain, call) ==
    IF chain = None THEN ledger ELSE Append(ledger, [call EXCEPT !.outcome = chain])

\* a request slot: `state` is "idle", "received" or what the handler answered;
\* `overlapped` records that the request arrived while the handler task of
\* another request had not run yet
NoRequest == [evidence_id |-> None, state |-> "idle", overlapped |-> FALSE]
RequestIds == {"r1", "r2"}

\* ------------------------------------------------------------------------
Init ==
    /\ now = 0
    /\ configured = FALSE
    /\ inspector_registry = EmptyMap
    /\ inspector_reputation = EmptyMap
    /\ verification_sessions = EmptyMap
    /\ resolution_records = EmptyMap
    /\ audit_records = EmptyMap
    /\ submission_records = EmptyMap
    /\ bounty_payouts = EmptyMap
    /\ publication_queue = <<>>
    /\ ledger = <<>>
    /\ requests = [r \in RequestIds |-> NoRequest]
    /\ last = NoCall

\* verification.py:95-148
register_inspector(address) ==
    IF address \in DOMAIN inspector_registry
    THEN /\ last' = Call("register_inspector", None, address, "Inspector already registered")
         /\ UNCHANGED <<now, configured, other_stores, ledger, inspector_registry, inspector_reputation,
                        verification_sessions, resolution_records, audit_records>>
    ELSE /\ inspector_registry' =
                [a \in DOMAIN inspector_registry \cup {address} |->
                    IF a = address
                    THEN [specializations |-> SpecializationsOf(address),
                          total_inspections |-> 0,
                          consensus_agreements |-> 0,
                          active |-> TRUE,
                          cases_assigned |-> <<>>]
                    ELSE inspector_registry[a]]
         /\ inspector_reputation' =
                [a \in DOMAIN inspector_reputation \cup {address} |->
                    IF a = address
                    THEN [consistency_score |-> 1000,
                          total_votes |-> 0,
                          consensus_matches |-> 0,
                          outlier_count |-> 0,
                          credibility_weight |-> FullCredibilityWeight]
                    ELSE inspector_reputation[a]]
         /\ last' = Call("register_inspector", None, address, "registered")
         /\ UNCHANGED <<now, configured, other_stores, ledger, verification_sessions,
                        resolution_records, audit_records>>

\* the specialization filter left out
get_inspector_pool_Unfiltered(category) ==
    {a \in DOMAIN inspector_registry : inspector_registry[a].active}

\* verification.py:213-226; category None is the unfiltered pool
get_inspector_pool(category) ==
    {a \in DOMAIN inspector_registry :
        /\ inspector_registry[a].active
        /\ (category = None \/ category \in inspector_registry[a].specializations)}

\* the check for an existing session left out
AlreadyStarted_Skipped(evidence_id) == FALSE

\* verification.py:246-247
AlreadyStarted(evidence_id) == evidence_id \in DOMAIN verification_sessions

\* verification.py:229-329
begin_verification(evidence_id, category) ==
    LET specialists == get_inspector_pool(category)
        eligible == IF Cardinality(specialists) < MIN_INSPECTORS
                    THEN get_inspector_pool(None) ELSE specialists
        window_hours == VERIFICATION_WINDOW_HOURS(category)
        num_to_assign == Min(Max(MIN_INSPECTORS, 3), Cardinality(eligible))
    IN
    IF AlreadyStarted(evidence_id)
    THEN /\ last' = Call("begin_verification", evidence_id, None,
                         "Verification already started for this evidence")
         /\ UNCHANGED <<now, configured, other_stores, ledger, inspector_registry, inspector_reputation,
                        verification_sessions, resolution_records, audit_records>>
    ELSE IF Cardinality(eligible) < MIN_INSPECTORS
    THEN /\ last' = Call("begin_verification", evidence_id, None,
                         "Not enough inspectors in pool")
         /\ UNCHANGED <<now, configured, other_stores, ledger, inspector_registry, inspector_reputation,
                        verification_sessions, resolution_records, audit_records>>
    ELSE \E selected \in SUBSET eligible, chain \in LedgerOutcomes :
         /\ Cardinality(selected) = num_to_assign
         /\ inspector_registry' =
                [a \in DOMAIN inspector_registry |->
                    IF a \in selected
                    THEN [inspector_registry[a] EXCEPT
                            !.cases_assigned = Append(@, evidence_id)]
                    ELSE inspector_registry[a]]
         /\ verification_sessions' = Put(verification_sessions, evidence_id,
                [category |-> category,
                 status |-> "UNDER_VERIFICATION",
                 started_timestamp |-> now,
                 window_end |-> now + window_hours * 3600,
                 num_inspectors_required |-> num_to_assign,
                 assigned_inspectors |-> selected,
                 phase |-> "COMMIT",
                 commits |-> EmptyMap,
                 reveals |-> EmptyMap,
                 final_verdict |-> None,
                 finalized_at |-> NoTime,
                 vote_breakdown |-> NoBreakdown,
                 on_chain_tx |-> TxId(chain),
                 on_chain_error |-> LedgerError(chain),
                 finalize_tx |-> None,
                 finalize_error |-> None,
                 resolution |-> NoResolution,
                 published_at |-> NoTime])
         /\ ledger' = Submitted(chain, LedgerCall("begin_verification", evidence_id,
                                                  -1, "UNDER_VERIFICATION"))
         /\ last' = Call("begin_verification", evidence_id, None, "UNDER_VERIFICATION")
         /\ UNCHANGED <<now, configured, other_stores, inspector_reputation,
                        resolution_records, audit_records>>

\* the panel check left out
NotAssigned_Skipped(session, inspector_address) == FALSE

\* verification.py:352-355: the caller is not on the session's panel
NotAssigned(session, inspector_address) ==
    /\ session.assigned_inspectors # {}
    /\ inspector_address \notin session.assigned_inspectors

\* the duplicate-commit check left out
AlreadyCommitted_Skipped(session, inspector_address) == FALSE

\* verification.py:357-359
AlreadyCommitted(session, inspector_address) ==
    inspector_address \in DOMAIN session.commits

\* time passes between two calls: int(time.time()) reads t from then on
clock_advances(t) ==
    /\ t > now
    /\ now' = t
    /\ UNCHANGED <<configured, other_stores, ledger, inspector_registry,
                   inspector_reputation, verification_sessions, resolution_records,
                   audit_records, last>>

\* the deadline check left out
WindowExpired_Skipped(session) == FALSE

\* verification.py:361-363
WindowExpired(session) == now > session.window_end

\* verification.py:345-363: what commit_verdict returns
commit_result(evidence_id, inspector_address) ==
    IF ~HasSession(evidence_id)
    THEN "No verification session found for this evidence"
    ELSE LET session == verification_sessions[evidence_id] IN
         IF session.phase # "COMMIT"
         THEN "Verification is not in COMMIT phase"
         ELSE IF NotAssigned(session, inspector_address)
         THEN "Inspector not assigned to this evidence (blind assignment)"
         ELSE IF AlreadyCommitted(session, inspector_address)
         THEN "Inspector already committed a verdict for this evidence"
         ELSE IF WindowExpired(session)
         THEN "Verification window has expired"
         ELSE "committed"

\* the phase left alone by a commit
PhaseAfterCommit_NoAdvance(session, commits) == session.phase

\* verification.py:381-384: auto-advance when every panel member has committed
PhaseAfterCommit(session, commits) ==
    IF Cardinality(DOMAIN commits) >= session.num_inspectors_required
    THEN "REVEAL" ELSE session.phase

\* verification.py:332-404
commit_verdict(evidence_id, inspector_address, commit_hash) ==
    LET result == commit_result(evidence_id, inspector_address) IN
    IF result # "committed"
    THEN /\ last' = Call("commit_verdict", evidence_id, inspector_address, result)
         /\ UNCHANGED <<now, configured, other_stores, ledger, inspector_registry, inspector_reputation,
                        verification_sessions, resolution_records, audit_records>>
    ELSE LET session == verification_sessions[evidence_id]
             commits1 == Put(session.commits, inspector_address,
                             [commit_hash |-> commit_hash, timestamp |-> now])
         IN
         /\ verification_sessions' =
                [verification_sessions EXCEPT ![evidence_id] =
                    [session EXCEPT !.commits = commits1,
                                    !.phase = PhaseAfterCommit(session, commits1)]]
         /\ last' = Call("commit_verdict", evidence_id, inspector_address, result)
         /\ UNCHANGED <<now, configured, other_stores, ledger, inspector_registry, inspector_reputation,
                        resolution_records, audit_records>>

\* verification.py:409-417: what advance_to_reveal returns
advance_result(evidence_id) ==
    IF ~HasSession(evidence_id)
    THEN "No verification session found"
    ELSE IF Cardinality(DOMAIN verification_sessions[evidence_id].commits) < MIN_INSPECTORS
    THEN "Need at least MIN_INSPECTORS commits before reveal phase"
    ELSE "advanced_to_reveal"

\* the phase written before the number of commits is checked
advance_to_reveal_PhaseSetFirst(evidence_id) ==
    LET result == advance_result(evidence_id) IN
    IF ~HasSession(evidence_id)
    THEN /\ last' = Call("advance_to_reveal", evidence_id, None, result)
         /\ UNCHANGED <<now, configured, other_stores, ledger, inspector_registry, inspector_reputation,
                        verification_sessions, resolution_records, audit_records>>
    ELSE /\ verification_sessions' =
                [verification_sessions EXCEPT ![evidence_id].phase = "REVEAL"]
         /\ last' = Call("advance_to_reveal", evidence_id, None, result)
         /\ UNCHANGED <<now, configured, other_stores, ledger, inspector_registry, inspector_reputation,
                        resolution_records, audit_records>>

\* verification.py:407-425
advance_to_reveal(evidence_id) ==
    LET result == advance_result(evidence_id) IN
    IF result # "advanced_to_reveal"
    THEN /\ last' = Call("advance_to_reveal", evidence_id, None, result)
         /\ UNCHANGED <<now, configured, other_stores, ledger, inspector_registry, inspector_reputation,
                        verification_sessions, resolution_records, audit_records>>
    ELSE /\ verification_sessions' =
                [verification_sessions EXCEPT ![evidence_id].phase = "REVEAL"]
         /\ last' = Call("advance_to_reveal", evidence_id, None, result)
         /\ UNCHANGED <<now, configured, other_stores, ledger, inspector_registry, inspector_reputation,
                        resolution_records, audit_records>>

\* the phase check left out
NotInRevealPhase_Skipped(session) == FALSE

\* verification.py:452-453
NotInRevealPhase(session) == session.phase # "REVEAL"

\* verification.py:463-468: `not justification_ipfs or len(justification_ipfs.strip()) < 5`
JustificationMissing(justification_ipfs) ==
    justification_ipfs = <<>> \/ Len(Strip(justification_ipfs)) < 5

\* only the verdict bytes compared, the nonce left out
RevealHashMatches_VerdictOnly(stored_hash, verdict, nonce) ==
    SubSeq(stored_hash.data, 1, 8) = To_bytes8(verdict)

\* the comparison left out
RevealHashMatches_Always(stored_hash, verdict, nonce) == TRUE

\* verification.py:470-476: the revealed pair hashes to the stored commit
RevealHashMatches(stored_hash, verdict, nonce) ==
    Sha256Hex(To_bytes8(verdict) \o nonce) = stored_hash

\* verification.py:448-483: what reveal_verdict returns
reveal_result(evidence_id, inspector_address, verdict, nonce, justification_ipfs) ==
    IF ~HasSession(evidence_id)
    THEN "No verification session found"
    ELSE LET session == verification_sessions[evidence_id] IN
         IF NotInRevealPhase(session)
         THEN "Verification is not in REVEAL phase"
         ELSE IF inspector_address \notin DOMAIN session.commits
         THEN "Inspector did not commit a verdict"
         ELSE IF inspector_address \in DOMAIN session.reveals
         THEN "Inspector already revealed their verdict"
         ELSE IF JustificationMissing(justification_ipfs)
         THEN "Justification evidence is MANDATORY"
         ELSE IF ~To_bytes8_ok(verdict)
         THEN "raised OverflowError"
         ELSE IF ~RevealHashMatches(session.commits[inspector_address].commit_hash,
                                    verdict, nonce)
         THEN "COMMIT-REVEAL MISMATCH"
         ELSE "revealed"

\* verification.py:485-493: the stored reveal; verdict_label 0 stands for "UNKNOWN"
RevealEntry(verdict, nonce, justification_ipfs) ==
    [verdict |-> verdict,
     verdict_label |-> IF verdict \in VERDICT_LABELS THEN verdict ELSE 0,
     justification_ipfs |-> justification_ipfs,
     timestamp |-> now,
     nonce |-> nonce]

\* verification.py:428-523
reveal_verdict(evidence_id, inspector_address, verdict, nonce, justification_ipfs) ==
    LET result == reveal_result(evidence_id, inspector_address, verdict, nonce,
                                justification_ipfs)
    IN
    IF result = "revealed"
    THEN /\ verification_sessions' =
                [verification_sessions EXCEPT ![evidence_id].reveals =
                    Put(@, inspector_address,
                        RevealEntry(verdict, nonce, justification_ipfs))]
         /\ last' = Call("reveal_verdict", evidence_id, inspector_address, result)
         /\ UNCHANGED <<now, configured, other_stores, ledger, inspector_registry, inspector_reputation,
                        resolution_records, audit_records>>
    ELSE IF result = "COMMIT-REVEAL MISMATCH"
    THEN /\ last' = CallH("reveal_verdict", evidence_id, inspector_address, result,
                          verification_sessions[evidence_id]
                              .commits[inspector_address].commit_hash,
                          Sha256Hex(To_bytes8(verdict) \o nonce))
         /\ UNCHANGED <<now, configured, other_stores, ledger, inspector_registry, inspector_reputation,
                        verification_sessions, resolution_records, audit_records>>
    ELSE /\ last' = Call("reveal_verdict", evidence_id, inspector_address, result)
         /\ UNCHANGED <<now, configured, other_stores, ledger, inspector_registry, inspector_reputation,
                        verification_sessions, resolution_records, audit_records>>

\* sum of f over a finite set
RECURSIVE SumOver(_, _)
SumOver(S, f) ==
    IF S = {} THEN 0
    ELSE LET x == CHOOSE y \in S : TRUE IN f[x] + SumOver(S \ {x}, f)

\* verification.py:560-561: the credibility weight a reveal counts with
WeightOf(addr) ==
    IF addr \in DOMAIN inspector_reputation
    THEN inspector_reputation[addr].credibility_weight ELSE FullCredibilityWeight

\* verification.py:551-568: weighted_votes and total_weight, in thousandths
WeightedVotes(reveals, verdict) ==
    SumOver({a \in DOMAIN reveals : reveals[a].verdict = verdict},
            [a \in DOMAIN reveals |-> WeightOf(a)])
TotalWeight(reveals) ==
    LET t == SumOver(DOMAIN reveals, [a \in DOMAIN reveals |-> WeightOf(a)])
    IN  IF t = 0 THEN FullCredibilityWeight ELSE t

\* verification.py:570-573: round(v / total_weight * 100, 1), in tenths of a percent
VotePercentages(reveals) ==
    [AUTHENTIC |-> RoundHalfEven(1000 * WeightedVotes(reveals, VERDICT_AUTHENTIC),
                                 TotalWeight(reveals)),
     FAKE |-> RoundHalfEven(1000 * WeightedVotes(reveals, VERDICT_FAKE),
                            TotalWeight(reveals)),
     INCONCLUSIVE |-> RoundHalfEven(1000 * WeightedVotes(reveals, VERDICT_INCONCLUSIVE),
                                    TotalWeight(reveals))]

\* the threshold taken as two thirds instead of 0.67
MeetsThreshold_TwoThirds(weight, total) == 3 * weight >= 2 * total

\* verification.py:576-587: share >= CONSENSUS_THRESHOLD
MeetsThreshold(weight, total) == ThresholdDen * weight >= ThresholdNum * total

FinalStatus(auth, fake, total) ==
    IF MeetsThreshold(auth, total) THEN "VERIFIED"
    ELSE IF MeetsThreshold(fake, total) THEN "REJECTED"
    ELSE "DISPUTED"

FinalVerdictOf(status) ==
    CASE status = "VERIFIED" -> VERDICT_AUTHENTIC
      [] status = "REJECTED" -> VERDICT_FAKE
      [] OTHER -> VERDICT_INCONCLUSIVE

\* verification.py:742-754
ConsistencyScore(matches, total) == RoundHalfEven(1000 * matches, total)
\* the weight reduced by the whole outlier rate
CredibilityWeight_NoHalving(outliers, total) ==
    Max(MinCredibilityWeight, RoundHalfEven(1000 * total - 1000 * outliers, total))
CredibilityWeight(outliers, total) ==
    Max(MinCredibilityWeight, RoundHalfEven(1000 * total - 500 * outliers, total))

\* a vote against the consensus not counted as an outlier
UpdatedReputation_OutlierNotCounted(rep, verdict, final_verdict) ==
    LET total == rep.total_votes + 1
        matches == rep.consensus_matches + (IF verdict = final_verdict THEN 1 ELSE 0)
        outliers == rep.outlier_count
    IN  [total_votes |-> total,
         consensus_matches |-> matches,
         outlier_count |-> outliers,
         consistency_score |-> IF total > 0 THEN ConsistencyScore(matches, total)
                               ELSE rep.consistency_score,
         credibility_weight |-> IF total >= WeightDecayMinVotes THEN CredibilityWeight(outliers, total)
                                ELSE rep.credibility_weight]

\* verification.py:723-754: the reputation of one revealing inspector
UpdatedReputation(rep, verdict, final_verdict) ==
    LET total == rep.total_votes + 1
        matches == rep.consensus_matches + (IF verdict = final_verdict THEN 1 ELSE 0)
        outliers == rep.outlier_count + (IF verdict = final_verdict THEN 0 ELSE 1)
    IN  [total_votes |-> total,
         consensus_matches |-> matches,
         outlier_count |-> outliers,
         consistency_score |-> IF total > 0 THEN ConsistencyScore(matches, total)
                               ELSE rep.consistency_score,
         credibility_weight |-> IF total >= WeightDecayMinVotes THEN CredibilityWeight(outliers, total)
                                ELSE rep.credibility_weight]

\* two reveals taken as enough
finalize_result_TwoReveals(evidence_id) ==
    IF ~HasSession(evidence_id)
    THEN "No verification session found"
    ELSE LET reveals == verification_sessions[evidence_id].reveals IN
         IF Cardinality(DOMAIN reveals) < MIN_INSPECTORS - 1
         THEN "Need at least MIN_INSPECTORS reveals to finalize"
         ELSE IF \E a \in DOMAIN reveals : reveals[a].verdict \notin VERDICT_LABELS
         THEN "raised KeyError"
         ELSE FinalStatus(WeightedVotes(reveals, VERDICT_AUTHENTIC),
                          WeightedVotes(reveals, VERDICT_FAKE),
                          TotalWeight(reveals))

\* verification.py:541-587: what finalize_verification returns
finalize_result(evidence_id) ==
    IF ~HasSession(evidence_id)
    THEN "No verification session found"
    ELSE LET reveals == verification_sessions[evidence_id].reveals IN
         IF Cardinality(DOMAIN reveals) < MIN_INSPECTORS
         THEN "Need at least MIN_INSPECTORS reveals to finalize"
         \* VERDICT_LABELS[k] at line 571 has no entry for such a verdict
         ELSE IF \E a \in DOMAIN reveals : reveals[a].verdict \notin VERDICT_LABELS
         THEN "raised KeyError"
         ELSE FinalStatus(WeightedVotes(reveals, VERDICT_AUTHENTIC),
                          WeightedVotes(reveals, VERDICT_FAKE),
                          TotalWeight(reveals))

FinalStatuses == {"VERIFIED", "REJECTED", "DISPUTED"}

\* verification.py:723-754
update_reputations(reveals, final_verdict) ==
    [a \in DOMAIN inspector_reputation |->
        IF a \in DOMAIN reveals
        THEN UpdatedReputation(inspector_reputation[a], reveals[a].verdict, final_verdict)
        ELSE inspector_reputation[a]]

\* verification.py:731-738: the registry counters kept next to the reputation
update_registry_counters(reveals, final_verdict) ==
    [a \in DOMAIN inspector_registry |->
        IF a \in DOMAIN reveals /\ a \in DOMAIN inspector_reputation
        THEN [inspector_registry[a] EXCEPT
                !.total_inspections = @ + 1,
                !.consensus_agreements =
                    IF reveals[a].verdict = final_verdict THEN @ + 1 ELSE @]
        ELSE inspector_registry[a]]

\* verification.py:526-618
finalize_verification(evidence_id) ==
    LET result == finalize_result(evidence_id) IN
    IF result \notin FinalStatuses
    THEN /\ last' = Call("finalize_verification", evidence_id, None, result)
         /\ UNCHANGED <<now, configured, other_stores, ledger, inspector_registry, inspector_reputation,
                        verification_sessions, resolution_records, audit_records>>
    ELSE LET session == verification_sessions[evidence_id]
             reveals == session.reveals
             final_verdict == FinalVerdictOf(result)
         IN
         \E chain \in LedgerOutcomes :
         /\ \A a \in DOMAIN reveals :
               a \in DOMAIN inspector_reputation =>
                   inspector_reputation[a].total_votes < MaxVotes
         /\ verification_sessions' =
               [verification_sessions EXCEPT ![evidence_id] =
                   [session EXCEPT !.final_verdict = result,
                                   !.finalized_at = now,
                                   !.phase = "FINALIZED",
                                   !.vote_breakdown = VotePercentages(reveals),
                                   !.finalize_tx =
                                       IF chain = "tx" THEN TxId(chain) ELSE @,
                                   !.finalize_error =
                                       IF chain = "error" THEN LedgerError(chain) ELSE @]]
         /\ inspector_reputation' = update_reputations(reveals, final_verdict)
         /\ inspector_registry' = update_registry_counters(reveals, final_verdict)
         /\ ledger' = Submitted(chain, LedgerCall("finalize_verification", evidence_id,
                                                  -1, result))
         /\ last' = Call("finalize_verification", evidence_id, None, result)
         /\ UNCHANGED <<now, configured, other_stores, resolution_records, audit_records>>

\* a disputed case forfeits the stake
ResolutionAction_ForfeitOnDispute(final_verdict) ==
    CASE final_verdict = "VERIFIED" -> "STAKE_RELEASED"
      [] final_verdict = "REJECTED" -> "STAKE_FORFEITED"
      [] final_verdict = "DISPUTED" -> "STAKE_FORFEITED"
      [] OTHER -> None

\* resolution.py:84-100
ResolutionAction(final_verdict) ==
    CASE final_verdict = "VERIFIED" -> "STAKE_RELEASED"
      [] final_verdict = "REJECTED" -> "STAKE_FORFEITED"
      [] final_verdict = "DISPUTED" -> "STAKE_LOCKED"
      [] OTHER -> None
ResolutionStatusCode(final_verdict) ==
    CASE final_verdict = "VERIFIED" -> 1
      [] final_verdict = "REJECTED" -> 3
      [] final_verdict = "DISPUTED" -> 2
      [] OTHER -> -1
StakeAction(final_verdict) ==
    CASE final_verdict = "VERIFIED" -> "refund"
      [] final_verdict = "REJECTED" -> "forfeit"
      [] final_verdict = "DISPUTED" -> "none"
      [] OTHER -> None

\* the phase check left out
NotFinalized_Skipped(session) == FALSE

\* resolution.py:70-74
NotFinalized(session) == session.phase # "FINALIZED"

\* the check for an existing record left out
AlreadyResolved_Skipped(evidence_id) == FALSE

\* resolution.py:76-82
AlreadyResolved(evidence_id) == evidence_id \in DOMAIN resolution_records

\* resolution.py:65-100: what resolve_evidence returns
resolve_result(evidence_id) ==
    IF ~HasSession(evidence_id)
    THEN "No verification session found for this evidence"
    ELSE LET session == verification_sessions[evidence_id] IN
         IF NotFinalized(session)
         THEN "Must be FINALIZED before resolution"
         ELSE IF AlreadyResolved(evidence_id)
         THEN "Evidence already resolved"
         ELSE IF ResolutionAction(session.final_verdict) = None
         THEN "Unknown verdict"
         ELSE "RESOLVED"

\* resolution.py:102-116, 138-140: the resolution record
ResolutionRecord(session, chain) ==
    [verification_verdict |-> session.final_verdict,
     resolution_action |-> ResolutionAction(session.final_verdict),
     resolution_code |-> ResolutionStatusCode(session.final_verdict),
     stake_action |-> StakeAction(session.final_verdict),
     resolved_at |-> now,
     on_chain_tx |-> TxId(chain),
     on_chain_error |-> LedgerError(chain),
     vote_breakdown |-> session.vote_breakdown,
     inspector_count |-> Cardinality(DOMAIN session.reveals)]

\* resolution.py:257-272: the stake read from the box of an evidence id, field
\* 7 of the value its submit_evidence call wrote (the stake the call declared,
\* which is the payment grouped with it).  The blob of an approved
\* resolve_evidence or publish_evidence call overwrites the head of the box
\* and moves the fields, and the read gives 0; so does a box that is missing.
BoxStake(evidence_id) ==
    LET key == make_evidence_box_key(evidence_id)
        written == \E i \in 1..Len(ledger) :
                      /\ ledger[i].method \in {"resolve_evidence", "publish_evidence"}
                      /\ ledger[i].outcome = "tx"
                      /\ make_evidence_box_key(ledger[i].evidence_id) = key
        made == {i \in 1..Len(ledger) :
                      /\ ledger[i].method = "submit_evidence"
                      /\ ledger[i].outcome = "tx"
                      /\ make_evidence_box_key(ledger[i].evidence_id) = key}
    IN  IF made = {} \/ written THEN 0
        ELSE ledger[CHOOSE i \in made : TRUE].amount

\* resolution.py:250-277: the stake amount a resolve_evidence call carries in
\* ApplicationArgs[4]: the one of the submission record, or without a record
\* field 7 of the box when the box still holds the blob of its submission
RefundAmount(evidence_id) ==
    IF evidence_id \in DOMAIN submission_records
    THEN submission_records[evidence_id].stake_amount_microalgos
    ELSE BoxStake(evidence_id)

\* resolution.py:49-158, all but the table of request tasks
resolve_call(evidence_id) ==
    LET result == resolve_result(evidence_id) IN
    IF result # "RESOLVED"
    THEN /\ last' = Call("resolve_evidence", evidence_id, None, result)
         /\ UNCHANGED <<now, configured, submission_records, bounty_payouts, publication_queue, ledger,
                        inspector_registry, inspector_reputation,
                        verification_sessions, resolution_records, audit_records>>
    ELSE \E chain \in ResolveOutcomes(evidence_id, ResolutionStatusCode(
                                          verification_sessions[evidence_id].final_verdict)) :
         LET session == verification_sessions[evidence_id]
             resolution == ResolutionRecord(session, chain)
         IN
         /\ ledger' = Submitted(chain, Paying(LedgerCall("resolve_evidence", evidence_id,
                                                         resolution.resolution_code,
                                                         session.final_verdict),
                                              RefundAmount(evidence_id)))
         /\ verification_sessions' =
               [verification_sessions EXCEPT ![evidence_id] =
                   [session EXCEPT !.status = "RESOLVED",
                                   !.resolution = resolution]]
         /\ resolution_records' = Put(resolution_records, evidence_id, resolution)
         /\ last' = Call("resolve_evidence", evidence_id, None, result)
         /\ UNCHANGED <<now, configured, submission_records, bounty_payouts, publication_queue,
                        inspector_registry, inspector_reputation, audit_records>>

\* resolution.py:49-158
resolve_evidence(evidence_id) ==
    /\ resolve_call(evidence_id)
    /\ UNCHANGED requests

\* main.py:618-619: a POST /resolution/resolve request is accepted and its
\* handler task is created; the task has not run yet
api_resolve_received(r, evidence_id) ==
    /\ requests[r].state = "idle"
    /\ requests' = [requests EXCEPT ![r] =
                        [evidence_id |-> evidence_id,
                         state |-> "received",
                         overlapped |-> \E q \in RequestIds \ {r} :
                                            requests[q].state = "received"]]
    /\ UNCHANGED <<now, configured, submission_records, bounty_payouts, publication_queue, ledger,
                   inspector_registry, inspector_reputation, verification_sessions,
                   resolution_records, audit_records, last>>

\* main.py:618-637: the handler task runs.  The handler awaits nothing and
\* resolve_evidence and the ledger client are synchronous, so the task runs
\* from the first check to the write of the record without giving up the
\* event loop.
api_resolve_evidence(r) ==
    /\ requests[r].state = "received"
    /\ resolve_call(requests[r].evidence_id)
    /\ requests' = [requests EXCEPT ![r].state = last'.result]

\* audit_trail.py:72-78
AlreadyPublished_Skipped(evidence_id) == FALSE

AlreadyPublished(evidence_id) == evidence_id \in DOMAIN audit_records

\* the check for a resolution record left out
NotResolved_Skipped(evidence_id) == FALSE

\* audit_trail.py:80-85
NotResolved(evidence_id) == evidence_id \notin DOMAIN resolution_records

\* audit_trail.py:72-90: what publish_evidence returns
publish_result(evidence_id) ==
    IF AlreadyPublished(evidence_id)
    THEN "Evidence already published"
    ELSE IF NotResolved(evidence_id)
    THEN "Evidence must be resolved (Step 4) before publication"
    ELSE IF ~HasSession(evidence_id)
    THEN "No verification session found"
    ELSE "PUBLISHED"

\* audit_trail.py:201-268
build_audit_trail(session, resolution) ==
    [category |-> session.category,
     status |-> session.status,
     finalized_at |-> session.finalized_at,
     total_inspectors |-> Cardinality(DOMAIN session.reveals),
     commits_received |-> Cardinality(DOMAIN session.commits),
     vote_breakdown |-> session.vote_breakdown,
     final_verdict |-> session.final_verdict,
     resolution |-> resolution]

\* audit_trail.py:53-130
publish_evidence(evidence_id) ==
    LET result == publish_result(evidence_id) IN
    IF result # "PUBLISHED"
    THEN /\ last' = Call("publish_evidence", evidence_id, None, result)
         /\ UNCHANGED <<now, configured, other_stores, ledger, inspector_registry,
                        inspector_reputation, verification_sessions,
                        resolution_records, audit_records>>
    ELSE \E chain \in LedgerOutcomes :
         LET session == verification_sessions[evidence_id]
             \* `resolution or {"status": "NOT_RESOLVED"}`
             resolution == IF evidence_id \in DOMAIN resolution_records
                           THEN resolution_records[evidence_id] ELSE NoResolution
             trail == build_audit_trail(session, resolution)
             audit_trail == [category |-> trail.category,
                             status |-> "PUBLISHED",
                             finalized_at |-> trail.finalized_at,
                             total_inspectors |-> trail.total_inspectors,
                             commits_received |-> trail.commits_received,
                             vote_breakdown |-> trail.vote_breakdown,
                             final_verdict |-> trail.final_verdict,
                             resolution |-> trail.resolution,
                             publish_tx_id |-> TxId(chain),
                             publish_error |-> LedgerError(chain),
                             published_at |-> now]
         IN
         /\ ledger' = Submitted(chain, LedgerCall("publish_evidence", evidence_id,
                                                  -1, "PUBLISHED"))
         /\ verification_sessions' =
                [verification_sessions EXCEPT ![evidence_id] =
                    [session EXCEPT !.status = "PUBLISHED", !.published_at = now]]
         /\ audit_records' = Put(audit_records, evidence_id, audit_trail)
         /\ last' = Call("publish_evidence", evidence_id, None, "PUBLISHED")
         /\ UNCHANGED <<now, configured, other_stores, inspector_registry,
                        inspector_reputation, resolution_records>>

\* ------------------------------------------------------------------------
\* Submission store, bounty manager and the handlers that use them

\* str.upper() on the category inputs of the model
Upper(category) ==
    CASE category = "financial" -> "FINANCIAL"
      [] category = "Food" -> "FOOD"
      [] OTHER -> category

\* stake_manager.py:30-37, in microAlgos
MicroAlgosPerAlgo == 1000000
MIN_STAKE_MICROALGOS(cat) ==
    CASE cat = "FINANCIAL" -> 25000000
      [] cat = "CONSTRUCTION" -> 50000000
      [] cat = "FOOD" -> 25000000
      [] cat = "ACADEMIC" -> 15000000
ValidCategories == {"FINANCIAL", "CONSTRUCTION", "FOOD", "ACADEMIC"}
MAX_STAKE_MICROALGOS == 500000000
\* submit_evidence.py:83: the minimum of a category outside the table
DefaultMinStake == 15000000

\* bounty_manager.py:28-33, 56
DefaultBounty == 100000000
BOUNTY_REWARDS(cat) ==
    CASE cat = "FINANCIAL" -> 200000000
      [] cat = "CONSTRUCTION" -> 300000000
      [] cat = "FOOD" -> 150000000
      [] cat = "ACADEMIC" -> 100000000
      [] OTHER -> DefaultBounty

\* submission_store.py:24-64
SubmissionRecord(wallet_address, stake_amount_microalgos, category) ==
    [wallet_address |-> wallet_address,
     stake_amount_microalgos |-> stake_amount_microalgos,
     category |-> category,
     submitted_timestamp |-> now,
     status |-> "PENDING",
     bounty_status |-> None]

\* main.py:261-272: the stake in microAlgos.  The form field stake_amount is a
\* float in ALGO; the model writes an amount with six decimals as its number
\* of millionths (25000001 is 25.000001 ALGO) and NoStake when the field is
\* absent.  int(stake_amount * 1_000_000) truncates the float product, which
\* for some amounts lies just below the whole number: 0.000249 * 1000000 is
\* 248.99999999999997.  FloatProductShort holds the amounts among the inputs
\* of the model for which that happens; for the others the product is exact.
NoStake == -1
FloatProductShort == {249}
StakeMicro(stake_amount) ==
    IF stake_amount = NoStake THEN 0
    ELSE IF stake_amount \in FloatProductShort THEN stake_amount - 1
    ELSE stake_amount

\* a stake equal to the category minimum refused
submit_result_MinimumRefused(category, stake_amount) ==
    LET cat == Upper(category)
        stake_micro == StakeMicro(stake_amount)
    IN  IF cat \notin ValidCategories THEN "Invalid category"
        ELSE IF stake_amount # NoStake /\ stake_micro > 0
                                       /\ stake_micro <= MIN_STAKE_MICROALGOS(cat)
        THEN "Stake too low"
        ELSE IF stake_amount # NoStake /\ stake_micro > MAX_STAKE_MICROALGOS
        THEN "Stake exceeds maximum"
        ELSE "PENDING"

\* main.py:257-272: what the checks of submit_evidence answer
submit_result(category, stake_amount) ==
    LET cat == Upper(category)
        stake_micro == StakeMicro(stake_amount)
    IN  IF cat \notin ValidCategories THEN "Invalid category"
        ELSE IF stake_amount # NoStake /\ stake_micro > 0
                                       /\ stake_micro < MIN_STAKE_MICROALGOS(cat)
        THEN "Stake too low"
        ELSE IF stake_amount # NoStake /\ stake_micro > MAX_STAKE_MICROALGOS
        THEN "Stake exceeds maximum"
        ELSE "PENDING"

\* submit_evidence.py:159-166: the stake the pipeline pays, the category
\* minimum when it is called with a stake of 0 or less
PipelineStake(cat, stake_amount_microalgos) ==
    IF stake_amount_microalgos <= 0
    THEN (IF cat \in ValidCategories THEN MIN_STAKE_MICROALGOS(cat) ELSE DefaultMinStake)
    ELSE stake_amount_microalgos

\* the submit_evidence calls handed to the ledger so far
SubmitCalls == Cardinality({i \in 1..Len(ledger) : ledger[i].method = "submit_evidence"})

\* main.py:234-384.  evidence_id is the identifier the submission gets: the
\* one derived from the contract's counter when the ledger call succeeds (a
\* new identifier, the counter only grows), otherwise the one derived from the
\* clock, which is stored only if the store has no record under it.
submit_evidence(evidence_id, category, stake_amount, wallet_address) ==
    LET result == submit_result(category, stake_amount) IN
    IF result # "PENDING"
    THEN /\ last' = CallA("submit_evidence", None, result, category, stake_amount)
         /\ UNCHANGED <<now, configured, other_stores, ledger, inspector_registry,
                        inspector_reputation, verification_sessions,
                        resolution_records, audit_records>>
    ELSE \E chain \in LedgerOutcomes :
         /\ chain # None => SubmitCalls < MaxSubmits
         /\ chain = "tx" => evidence_id \notin DOMAIN submission_records
         /\ chain = "tx" => ~BoxExists(evidence_id)
         /\ submission_records' =
               IF evidence_id \in DOMAIN submission_records
               THEN submission_records
               ELSE Put(submission_records, evidence_id,
                        SubmissionRecord(wallet_address, StakeMicro(stake_amount),
                                         Upper(category)))
         /\ ledger' = Submitted(chain,
                                Paying(LedgerCall("submit_evidence", evidence_id,
                                                  -1, "PENDING"),
                                       PipelineStake(Upper(category),
                                                     StakeMicro(stake_amount))))
         /\ last' = CallA("submit_evidence", evidence_id, result, category, stake_amount)
         /\ UNCHANGED <<now, configured, bounty_payouts, publication_queue, requests, inspector_registry,
                        inspector_reputation, verification_sessions,
                        resolution_records, audit_records>>

\* a stake of 0 let through as the free tier, as the API handler does
validate_stake_amount_FreeTier(category, stake_microalgos) ==
    LET cat == Upper(category)
        min_stake == IF cat \in ValidCategories THEN MIN_STAKE_MICROALGOS(cat)
                     ELSE DefaultMinStake
    IN  IF stake_microalgos # 0 /\ stake_microalgos < min_stake THEN "Stake too low"
        ELSE IF stake_microalgos > MAX_STAKE_MICROALGOS THEN "Stake exceeds maximum"
        ELSE "valid"

\* submit_evidence.py:77-95: the ValueError validate_stake_amount raises, or
\* "valid" when it returns
validate_stake_amount(category, stake_microalgos) ==
    LET cat == Upper(category)
        min_stake == IF cat \in ValidCategories THEN MIN_STAKE_MICROALGOS(cat)
                     ELSE DefaultMinStake
    IN  IF stake_microalgos < min_stake THEN "Stake too low"
        ELSE IF stake_microalgos > MAX_STAKE_MICROALGOS THEN "Stake exceeds maximum"
        ELSE "valid"

\* one call of validate_stake_amount
validate_stake(category, stake_microalgos) ==
    /\ last' = CallA("validate_stake_amount", None,
                     validate_stake_amount(category, stake_microalgos),
                     category, stake_microalgos)
    /\ UNCHANGED <<now, configured, other_stores, ledger, inspector_registry,
                   inspector_reputation, verification_sessions,
                   resolution_records, audit_records>>

\* verification.py:621-658: the status, phase and final_verdict fields of the
\* answer; final_verdict is present only for a FINALIZED session
get_verification_status(evidence_id) ==
    IF ~HasSession(evidence_id)
    THEN [status |-> "NO_VERIFICATION_SESSION", phase |-> None, final_verdict |-> None]
    ELSE LET session == verification_sessions[evidence_id] IN
         [status |-> IF session.phase # "FINALIZED" THEN session.status
                     ELSE session.final_verdict,
          phase |-> session.phase,
          final_verdict |-> IF session.phase = "FINALIZED" THEN session.final_verdict
                            ELSE None]

\* a rejected report gets its stake back
calculate_payout_RefundOnReject(category, stake_amount_microalgos, verdict) ==
    LET bounty == BOUNTY_REWARDS(Upper(category)) IN
    CASE verdict = "VERIFIED" ->
            [bounty_reward |-> bounty,
             stake_refund |-> stake_amount_microalgos,
             total_payout |-> bounty + stake_amount_microalgos,
             payout_type |-> "BOUNTY_PLUS_REFUND"]
      [] verdict \in {"INSUFFICIENT", "REJECTED"} ->
            [bounty_reward |-> 0,
             stake_refund |-> stake_amount_microalgos,
             total_payout |-> stake_amount_microalgos,
             payout_type |-> "STAKE_REFUND_ONLY"]
      [] OTHER ->
            [bounty_reward |-> 0, stake_refund |-> 0, total_payout |-> 0,
             payout_type |-> "PENDING"]

\* bounty_manager.py:39-97
calculate_payout(category, stake_amount_microalgos, verdict) ==
    LET bounty == BOUNTY_REWARDS(Upper(category)) IN
    CASE verdict = "VERIFIED" ->
            [bounty_reward |-> bounty,
             stake_refund |-> stake_amount_microalgos,
             total_payout |-> bounty + stake_amount_microalgos,
             payout_type |-> "BOUNTY_PLUS_REFUND"]
      [] verdict = "INSUFFICIENT" ->
            [bounty_reward |-> 0,
             stake_refund |-> stake_amount_microalgos,
             total_payout |-> stake_amount_microalgos,
             payout_type |-> "STAKE_REFUND_ONLY"]
      [] verdict = "REJECTED" ->
            [bounty_reward |-> 0, stake_refund |-> 0, total_payout |-> 0,
             payout_type |-> "STAKE_FORFEITED"]
      [] OTHER ->
            [bounty_reward |-> 0, stake_refund |-> 0, total_payout |-> 0,
             payout_type |-> "PENDING"]

\* bounty_manager.py:130-132
BountyStatus(total_payout, verdict) ==
    IF total_payout > 0 THEN "PAID"
    ELSE IF verdict = "REJECTED" THEN "FORFEITED" ELSE "PENDING"

\* bounty_manager.py:118-133
BountyRecord(category, verdict, wallet_address, stake_amount_microalgos) ==
    LET payout == calculate_payout(category, stake_amount_microalgos, verdict) IN
    [category |-> category,
     verdict |-> verdict,
     wallet_address |-> wallet_address,
     stake_amount_microalgos |-> stake_amount_microalgos,
     bounty_reward |-> payout.bounty_reward,
     stake_refund |-> payout.stake_refund,
     total_payout |-> payout.total_payout,
     payout_type |-> payout.payout_type,
     processed_timestamp |-> now,
     status |-> BountyStatus(payout.total_payout, verdict)]

\* bounty_manager.py:112-116
BountyProcessed(evidence_id) == evidence_id \in DOMAIN bounty_payouts

\* bounty_manager.py:100-136
process_bounty_payout(evidence_id, category, verdict, wallet_address, stake_amount_microalgos) ==
    IF BountyProcessed(evidence_id)
    THEN /\ last' = Call("process_bounty_payout", evidence_id, None,
                         "Bounty already processed for this evidence")
         /\ UNCHANGED <<now, configured, other_stores, ledger, inspector_registry,
                        inspector_reputation, verification_sessions,
                        resolution_records, audit_records>>
    ELSE LET record == BountyRecord(category, verdict, wallet_address,
                                    stake_amount_microalgos)
         IN
         /\ bounty_payouts' = Put(bounty_payouts, evidence_id, record)
         /\ last' = Call("process_bounty_payout", evidence_id, None, record.status)
         /\ UNCHANGED <<now, configured, submission_records, publication_queue, requests, ledger,
                        inspector_registry, inspector_reputation,
                        verification_sessions, resolution_records, audit_records>>

\* the verdicts api_process_bounty accepts (main.py:812)
BountyVerdicts == {"VERIFIED", "REJECTED", "DISPUTED"}

\* main.py:811: `vrf_status.get("final_verdict") or vrf_status.get("status", "PENDING")`
BountyVerdictOf(vrf_status) ==
    IF vrf_status.final_verdict # None THEN vrf_status.final_verdict
    ELSE vrf_status.status

\* main.py:798-825: what api_process_bounty answers
process_bounty_result(evidence_id) ==
    LET vrf_status == get_verification_status(evidence_id) IN
    IF evidence_id \notin DOMAIN submission_records
    THEN "Submission not found"
    ELSE IF vrf_status.status = "NO_VERIFICATION_SESSION"
    THEN "No verification session found"
    ELSE IF BountyVerdictOf(vrf_status) \notin BountyVerdicts
    THEN "Verification not finalized"
    ELSE IF BountyProcessed(evidence_id)
    THEN "Bounty already processed for this evidence"
    ELSE "processed"

\* main.py:798-831
api_process_bounty(evidence_id) ==
    LET result == process_bounty_result(evidence_id) IN
    IF result # "processed"
    THEN /\ last' = Call("api_process_bounty", evidence_id, None, result)
         /\ UNCHANGED <<now, configured, other_stores, ledger, inspector_registry,
                        inspector_reputation, verification_sessions,
                        resolution_records, audit_records>>
    ELSE LET submission == submission_records[evidence_id]
             verdict == BountyVerdictOf(get_verification_status(evidence_id))
             record == BountyRecord(submission.category, verdict,
                                    submission.wallet_address,
                                    submission.stake_amount_microalgos)
         IN
         /\ bounty_payouts' = Put(bounty_payouts, evidence_id, record)
         \* update_submission(evidence_id, bounty_payout=result, status=verdict)
         /\ submission_records' =
               [submission_records EXCEPT ![evidence_id] =
                   [submission EXCEPT !.bounty_status = record.status,
                                      !.status = verdict]]
         /\ last' = Call("api_process_bounty", evidence_id, None, result)
         /\ UNCHANGED <<now, configured, publication_queue, requests, ledger, inspector_registry,
                        inspector_reputation, verification_sessions,
                        resolution_records, audit_records>>

\* ------------------------------------------------------------------------
\* The publication queue (publication_bot.py)

\* publication_bot.py:152-182
schedule_publication(evidence_id, delay_seconds) ==
    /\ Len(publication_queue) < MaxQueue
    /\ publication_queue' =
          Append(publication_queue,
                 [evidence_id |-> evidence_id,
                  publish_at |-> now + delay_seconds,
                  delay_seconds |-> delay_seconds,
                  status |-> "SCHEDULED",
                  can_cancel_until |-> now + delay_seconds])
    /\ last' = Call("schedule_publication", evidence_id, None, "SCHEDULED")
    /\ UNCHANGED <<now, configured, submission_records, bounty_payouts, requests, ledger,
                   inspector_registry, inspector_reputation, verification_sessions,
                   resolution_records, audit_records>>

\* publication_bot.py:187-188: the first queue item of the evidence id that is
\* still SCHEDULED (0 when there is none); the loop returns at that item
FirstScheduled(evidence_id) ==
    LET S == {i \in 1..Len(publication_queue) :
                /\ publication_queue[i].evidence_id = evidence_id
                /\ publication_queue[i].status = "SCHEDULED"}
    IN  IF S = {} THEN 0 ELSE CHOOSE i \in S : \A j \in S : i <= j

\* cancellation allowed at any time
CancelWindowOpen_Always(item) == TRUE

\* publication_bot.py:189
CancelWindowOpen(item) == now < item.can_cancel_until

\* publication_bot.py:185-194
cancel_scheduled_publication(evidence_id) ==
    LET i == FirstScheduled(evidence_id) IN
    IF i = 0
    THEN /\ last' = Call("cancel_scheduled_publication", evidence_id, None,
                         "No scheduled publication found")
         /\ UNCHANGED <<now, configured, other_stores, ledger, inspector_registry,
                        inspector_reputation, verification_sessions,
                        resolution_records, audit_records>>
    ELSE IF CancelWindowOpen(publication_queue[i])
    THEN /\ publication_queue' = [publication_queue EXCEPT ![i].status = "CANCELLED"]
         /\ last' = Call("cancel_scheduled_publication", evidence_id, None, "cancelled")
         /\ UNCHANGED <<now, configured, submission_records, bounty_payouts, requests,
                        ledger, inspector_registry, inspector_reputation,
                        verification_sessions, resolution_records, audit_records>>
    ELSE /\ last' = Call("cancel_scheduled_publication", evidence_id, None,
                         "Challenge window expired, cannot cancel")
         /\ UNCHANGED <<now, configured, other_stores, ledger, inspector_registry,
                        inspector_reputation, verification_sessions,
                        resolution_records, audit_records>>

\* publication_bot.py:202
IsDue(item) == item.status = "SCHEDULED" /\ now >= item.publish_at

\* publication_bot.py:197-204
check_pending_publications ==
    /\ last' = CallD("check_pending_publications", SelectSeq(publication_queue, IsDue))
    /\ UNCHANGED <<now, configured, other_stores, ledger, inspector_registry,
                   inspector_reputation, verification_sessions,
                   resolution_records, audit_records>>

\* ------------------------------------------------------------------------
\* Properties

Sessions == DOMAIN verification_sessions
Session(e) == verification_sessions[e]
PhaseRank(p) == CASE p = "COMMIT" -> 1 [] p = "REVEAL" -> 2 [] p = "FINALIZED" -> 3
CoreTablesUnchanged ==
    UNCHANGED <<inspector_registry, inspector_reputation, verification_sessions,
                resolution_records, audit_records>>

\* C1: under every call a session's phase only moves forward in the order
\* COMMIT -> REVEAL -> FINALIZED; no call sets it to an earlier phase.
C1_PhaseNeverRegresses ==
    [][\A e \in Sessions :
          /\ e \in DOMAIN verification_sessions'
          /\ PhaseRank(verification_sessions'[e].phase) >= PhaseRank(Session(e).phase)]_vars

\* C2: once a session is FINALIZED its phase, final_verdict, vote_breakdown,
\* finalized_at, commit table and reveal table never change under any later call.
C2_FinalizedImmutable ==
    [][\A e \in Sessions :
          Session(e).phase = "FINALIZED" =>
              /\ e \in DOMAIN verification_sessions'
              /\ verification_sessions'[e].phase = Session(e).phase
              /\ verification_sessions'[e].final_verdict = Session(e).final_verdict
              /\ verification_sessions'[e].vote_breakdown = Session(e).vote_breakdown
              /\ verification_sessions'[e].finalized_at = Session(e).finalized_at
              /\ verification_sessions'[e].commits = Session(e).commits
              /\ verification_sessions'[e].reveals = Session(e).reveals]_vars

\* C3: every entry of a reveal table hashes, as SHA-256(be64(verdict) || utf8(nonce)),
\* to the commit hash stored for the same inspector in the same session.
C3_RevealsMatchCommits ==
    \A e \in Sessions : \A a \in DOMAIN Session(e).reveals :
        /\ a \in DOMAIN Session(e).commits
        /\ generate_commit_hash(Session(e).reveals[a].verdict, Session(e).reveals[a].nonce)
              = Session(e).commits[a].commit_hash

C3_Witness ==
    \E e \in Sessions : \E a \in DOMAIN Session(e).reveals :
        Session(e).reveals[a].nonce \in Nonces

\* C4: a commit is stored only for an inspector of the session's panel; a commit
\* call from an address outside the panel is rejected and leaves the commit table
\* and the phase as they were.
C4_OnlyPanelCommits ==
    [][/\ \A e \in DOMAIN verification_sessions' :
            DOMAIN verification_sessions'[e].commits
                \subseteq verification_sessions'[e].assigned_inspectors
       /\ (/\ last'.op = "commit_verdict"
           /\ last'.evidence_id \in Sessions
           /\ last'.inspector \notin Session(last'.evidence_id).assigned_inspectors)
          => /\ last'.result # "committed"
             /\ verification_sessions' = verification_sessions]_vars

C4_Witness ==
    /\ last.op = "commit_verdict"
    /\ last.result = "Inspector not assigned to this evidence (blind assignment)"
    /\ last.evidence_id \in Sessions
    /\ last.inspector \notin Session(last.evidence_id).assigned_inspectors
    /\ Session(last.evidence_id).phase = "COMMIT"

\* C5 as first stated: of the commit calls of one (evidence_id, inspector) at most
\* one is accepted, every other one is rejected as already committed, and the
\* stored hash is never replaced.
C5_RejectedAsAlreadyCommitted ==
    [][/\ \A e \in Sessions : \A a \in DOMAIN Session(e).commits :
            /\ a \in DOMAIN verification_sessions'[e].commits
            /\ verification_sessions'[e].commits[a] = Session(e).commits[a]
       /\ (/\ last'.op = "commit_verdict"
           /\ last'.evidence_id \in Sessions
           /\ last'.inspector \in DOMAIN Session(last'.evidence_id).commits)
          => /\ last'.result = "Inspector already committed a verdict for this evidence"
             /\ verification_sessions' = verification_sessions]_vars

\* C5 (amended): of the commit calls of one (evidence_id, inspector) at most one is
\* accepted and the stored hash is never replaced; every other call is rejected,
\* as already committed while the session is in phase COMMIT and as not being in
\* the COMMIT phase once the session has left it.
C5_AtMostOneCommit ==
    [][/\ \A e \in Sessions : \A a \in DOMAIN Session(e).commits :
            /\ a \in DOMAIN verification_sessions'[e].commits
            /\ verification_sessions'[e].commits[a] = Session(e).commits[a]
       /\ (/\ last'.op = "commit_verdict"
           /\ last'.evidence_id \in Sessions
           /\ last'.inspector \in DOMAIN Session(last'.evidence_id).commits)
          => /\ last'.result =
                    IF Session(last'.evidence_id).phase = "COMMIT"
                    THEN "Inspector already committed a verdict for this evidence"
                    ELSE "Verification is not in COMMIT phase"
             /\ verification_sessions' = verification_sessions]_vars

C5_Witness ==
    /\ last.op = "commit_verdict"
    /\ last.result = "Inspector already committed a verdict for this evidence"
    /\ last.evidence_id \in Sessions
    /\ last.inspector \in DOMAIN Session(last.evidence_id).commits

\* C6: a reveal is accepted only in phase REVEAL, from an inspector with a stored
\* commit who has not revealed yet; so a reveal comes after the inspector's commit,
\* an inspector's reveal is stored once and never replaced, and the revealing
\* inspectors are among the committing ones.
C6_RevealAfterCommitOnce ==
    [][/\ \A e \in DOMAIN verification_sessions' :
            /\ DOMAIN verification_sessions'[e].reveals
                  \subseteq DOMAIN verification_sessions'[e].commits
            /\ e \notin Sessions => DOMAIN verification_sessions'[e].reveals = {}
       /\ \A e \in Sessions :
            /\ \A a \in DOMAIN Session(e).reveals :
                  /\ a \in DOMAIN verification_sessions'[e].reveals
                  /\ verification_sessions'[e].reveals[a] = Session(e).reveals[a]
            /\ \A a \in DOMAIN verification_sessions'[e].reveals \ DOMAIN Session(e).reveals :
                  /\ Session(e).phase = "REVEAL"
                  /\ a \in DOMAIN Session(e).commits
                  /\ last' = Call("reveal_verdict", e, a, "revealed")
       /\ (last'.op = "reveal_verdict" /\ last'.result = "revealed")
          => /\ last'.evidence_id \in Sessions
             /\ Session(last'.evidence_id).phase = "REVEAL"
             /\ last'.inspector \in DOMAIN Session(last'.evidence_id).commits
             /\ last'.inspector \notin DOMAIN Session(last'.evidence_id).reveals
             /\ last'.inspector \in DOMAIN verification_sessions'[last'.evidence_id].reveals]_vars

C6_Witness ==
    /\ last.op = "reveal_verdict"
    /\ last.result = "revealed"
    /\ last.evidence_id \in Sessions
    /\ last.inspector \in DOMAIN Session(last.evidence_id).reveals
    /\ last.inspector \in DOMAIN Session(last.evidence_id).commits

\* C7: a reveal whose (verdict, nonce) does not hash to the inspector's stored
\* commit returns an error that carries the expected and the computed hash; no
\* reveal is stored and the sessions, commit tables and reputations stay as they were.
C7_MismatchIsReturned ==
    \A e \in Sessions : \A a \in DOMAIN Session(e).commits :
        \A v \in VerdictInputs, n \in Nonces, j \in JustificationInputs :
            (/\ Session(e).phase = "REVEAL"
             /\ a \notin DOMAIN Session(e).reveals
             /\ ~JustificationMissing(j)
             /\ generate_commit_hash(v, n) # Session(e).commits[a].commit_hash)
            => reveal_result(e, a, v, n, j) = "COMMIT-REVEAL MISMATCH"

C7_MismatchChangesNothing ==
    (last'.op = "reveal_verdict" /\ last'.result = "COMMIT-REVEAL MISMATCH")
    => /\ CoreTablesUnchanged
       /\ last'.evidence_id \in Sessions
       /\ last'.inspector \in DOMAIN Session(last'.evidence_id).commits
       /\ last'.inspector \notin DOMAIN Session(last'.evidence_id).reveals
       /\ last'.expected_hash = Session(last'.evidence_id).commits[last'.inspector].commit_hash
       /\ last'.computed_hash # last'.expected_hash
       /\ \E v \in VerdictInputs, n \in Nonces :
             last'.computed_hash = generate_commit_hash(v, n)

C7_MismatchRejected == []C7_MismatchIsReturned /\ [][C7_MismatchChangesNothing]_vars

\* commit for verdict 1 with nonce "n", reveal of verdict 2 with the same nonce
C7_Witness ==
    /\ last.op = "reveal_verdict"
    /\ last.result = "COMMIT-REVEAL MISMATCH"
    /\ last.expected_hash = generate_commit_hash(VERDICT_AUTHENTIC, <<110>>)
    /\ last.computed_hash = generate_commit_hash(VERDICT_FAKE, <<110>>)
    /\ last.inspector \notin DOMAIN Session(last.evidence_id).reveals

\* C8: no reveal with a verdict outside {1, 2, 3} is ever stored in a reveal table.
C8_RevealedVerdictsInRange ==
    \A e \in Sessions : \A a \in DOMAIN Session(e).reveals :
        Session(e).reveals[a].verdict \in {1, 2, 3}

\* C9: finalize_verification succeeds exactly when the session holds at least 3
\* reveals, and then sets phase FINALIZED; with 2 or fewer it returns an error and
\* changes neither the session nor any reputation.
C9_FinalizeNeedsThreeReveals ==
    [][(last'.op = "finalize_verification" /\ last'.evidence_id \in Sessions)
       => IF Cardinality(DOMAIN Session(last'.evidence_id).reveals) >= 3
          THEN /\ last'.result \in FinalStatuses
               /\ verification_sessions'[last'.evidence_id].phase = "FINALIZED"
          ELSE /\ last'.result \notin FinalStatuses
               /\ CoreTablesUnchanged]_vars

\* C10: finalize_verification sets the final verdict to VERIFIED iff the
\* credibility-weighted share of AUTHENTIC reveals is >= 0.67, otherwise to
\* REJECTED iff the weighted share of FAKE reveals is >= 0.67, otherwise to
\* DISPUTED, each reveal counting with the weight its inspector has when the
\* finalization starts.
C10_Weight(reveals, verdict) ==
    SumOver({a \in DOMAIN reveals : reveals[a].verdict = verdict},
            [a \in DOMAIN reveals |-> inspector_reputation[a].credibility_weight])
C10_Total(reveals) ==
    SumOver(DOMAIN reveals,
            [a \in DOMAIN reveals |-> inspector_reputation[a].credibility_weight])
C10_Decision(reveals) ==
    IF 100 * C10_Weight(reveals, 1) >= 67 * C10_Total(reveals) THEN "VERIFIED"
    ELSE IF 100 * C10_Weight(reveals, 2) >= 67 * C10_Total(reveals) THEN "REJECTED"
    ELSE "DISPUTED"
C11_ReputationConsistent ==
    \A a \in DOMAIN inspector_registry :
        /\ a \in DOMAIN inspector_reputation
        /\ inspector_reputation[a].consensus_matches + inspector_reputation[a].outlier_count
              = inspector_reputation[a].total_votes
        /\ inspector_reputation[a].credibility_weight >= 100
        /\ inspector_reputation[a].credibility_weight <= 1000

\* an inspector whose weight has decayed after votes against the consensus
C11_Witness ==
    \E a \in DOMAIN inspector_registry :
        /\ last.op = "finalize_verification"
        /\ inspector_reputation[a].total_votes > WeightDecayMinVotes
        /\ inspector_reputation[a].outlier_count >= 1
        /\ inspector_reputation[a].consensus_matches >= 1
        /\ inspector_reputation[a].credibility_weight < FullCredibilityWeight

\* the handler task of request r runs in this step
ResolveRuns(r) == requests[r].state = "received" /\ requests'[r].state # "received"

\* C12: resolve_evidence on an evidence id whose session is missing or is not in
\* phase FINALIZED returns an error, writes no resolution record, submits no
\* ledger call and leaves the session as it was.
C12_ResolveNeedsFinalized ==
    [][\A r \in RequestIds :
          (/\ ResolveRuns(r)
           /\ \/ ~HasSession(requests[r].evidence_id)
              \/ Session(requests[r].evidence_id).phase # "FINALIZED")
          => /\ requests'[r].state =
                    IF ~HasSession(requests[r].evidence_id)
                    THEN "No verification session found for this evidence"
                    ELSE "Must be FINALIZED before resolution"
             /\ resolution_records' = resolution_records
             /\ ledger' = ledger
             /\ verification_sessions' = verification_sessions]_vars

\* one request answered before the session existed, the other while the
\* session was still collecting verdicts, on a ledger that is in use
C12_Witness ==
    \E r1, r2 \in RequestIds :
        /\ requests[r1].state = "No verification session found for this evidence"
        /\ requests[r2].state = "Must be FINALIZED before resolution"
        /\ ledger # <<>>
        /\ resolution_records = EmptyMap

\* C13: every stored resolution record has action STAKE_RELEASED iff its verdict
\* is VERIFIED, STAKE_FORFEITED iff it is REJECTED and STAKE_LOCKED iff it is
\* DISPUTED, its verdict being one of the three; every resolve_evidence call on
\* the ledger carries status code 1, 3 or 2 for these verdicts, and the verdict
\* of the record it was submitted for.
C13_Code(verdict) ==
    CASE verdict = "VERIFIED" -> 1
      [] verdict = "REJECTED" -> 3
      [] verdict = "DISPUTED" -> 2
C13_ActionFollowsVerdict ==
    /\ \A e \in DOMAIN resolution_records :
          LET rec == resolution_records[e] IN
          /\ rec.verification_verdict \in {"VERIFIED", "REJECTED", "DISPUTED"}
          /\ rec.resolution_action = "STAKE_RELEASED" <=> rec.verification_verdict = "VERIFIED"
          /\ rec.resolution_action = "STAKE_FORFEITED" <=> rec.verification_verdict = "REJECTED"
          /\ rec.resolution_action = "STAKE_LOCKED" <=> rec.verification_verdict = "DISPUTED"
    /\ \A i \in 1..Len(ledger) :
          ledger[i].method = "resolve_evidence"
          => /\ ledger[i].evidence_id \in DOMAIN resolution_records
             /\ ledger[i].status =
                    resolution_records[ledger[i].evidence_id].verification_verdict
             /\ ledger[i].status_code = C13_Code(ledger[i].status)

\* a disputed case resolved on the ledger: the stake stays locked, code 2
C13_Witness ==
    \E e \in DOMAIN resolution_records :
        /\ resolution_records[e].verification_verdict = "DISPUTED"
        /\ resolution_records[e].resolution_action = "STAKE_LOCKED"
        /\ \E i \in 1..Len(ledger) :
              /\ ledger[i].method = "resolve_evidence"
              /\ ledger[i].status_code = 2

\* C14: for a finalized session the first resolve_evidence call succeeds and
\* every later call for the same id returns 'Evidence already resolved' and
\* submits no ledger call; an id never has more than one resolution record and
\* a written record is never changed.
C14_ResolvedOnce ==
    [][/\ \A e \in DOMAIN resolution_records :
            /\ e \in DOMAIN resolution_records'
            /\ resolution_records'[e] = resolution_records[e]
       /\ \A r \in RequestIds :
            ResolveRuns(r)
            => IF requests[r].evidence_id \in DOMAIN resolution_records
               THEN /\ requests'[r].state = "Evidence already resolved"
                    /\ ledger' = ledger
               ELSE (/\ HasSession(requests[r].evidence_id)
                     /\ Session(requests[r].evidence_id).phase = "FINALIZED")
                    => /\ requests'[r].state = "RESOLVED"
                       /\ requests[r].evidence_id \in DOMAIN resolution_records']_vars

\* C15: of two resolve_evidence requests for the same finalized evidence id that
\* are in flight together, exactly one writes the resolution record and returns
\* success and the other is rejected as already resolved: no two requests for
\* one id are ever both answered with success, and a handler that runs while
\* the session is FINALIZED succeeds, submits one ledger call and writes the
\* record when there is none, and is rejected as already resolved, with no
\* write and no ledger call, when the other request has written it.
C15_OneSuccess ==
    \A r1, r2 \in RequestIds :
        (/\ r1 # r2
         /\ requests[r1].evidence_id = requests[r2].evidence_id
         /\ requests[r1].state = "RESOLVED")
        => requests[r2].state # "RESOLVED"
C15_HandlerOnFinalized ==
    \A r \in RequestIds :
        (/\ ResolveRuns(r)
         /\ HasSession(requests[r].evidence_id)
         /\ Session(requests[r].evidence_id).phase = "FINALIZED")
        => IF requests[r].evidence_id \notin DOMAIN resolution_records
           THEN /\ requests'[r].state = "RESOLVED"
                /\ requests[r].evidence_id \in DOMAIN resolution_records'
                /\ Len(ledger') = Len(ledger) + 1
           ELSE /\ requests'[r].state = "Evidence already resolved"
                /\ resolution_records' = resolution_records
                /\ verification_sessions' = verification_sessions
                /\ ledger' = ledger
C15_ConcurrentResolveOnce == []C15_OneSuccess /\ [][C15_HandlerOnFinalized]_vars

\* both requests were in flight together; one resolved, the other was rejected,
\* and the ledger got one resolve_evidence call
C15_Witness ==
    \E r1, r2 \in RequestIds :
        /\ r1 # r2
        /\ requests[r1].evidence_id = requests[r2].evidence_id
        /\ requests[r1].overlapped \/ requests[r2].overlapped
        /\ requests[r1].state = "RESOLVED"
        /\ requests[r2].state = "Evidence already resolved"
        /\ Cardinality({i \in 1..Len(ledger) : ledger[i].method = "resolve_evidence"}) = 1

\* C16: publish_evidence succeeds only for an evidence id that has a resolution
\* record; every audit record belongs to a resolved id and carries that id's
\* resolution record, and a publish call for an id without a resolution record
\* returns an error and writes nothing.
C16_AuditHasResolution ==
    \A e \in DOMAIN audit_records :
        /\ e \in DOMAIN resolution_records
        /\ audit_records[e].resolution = resolution_records[e]
C16_PublishStep ==
    last'.op = "publish_evidence"
    => LET e == last'.evidence_id IN
       /\ last'.result = "PUBLISHED" => e \in DOMAIN resolution_records
       /\ (e \notin DOMAIN resolution_records /\ e \notin DOMAIN audit_records)
          => /\ last'.result = "Evidence must be resolved (Step 4) before publication"
             /\ audit_records' = audit_records
             /\ verification_sessions' = verification_sessions
             /\ resolution_records' = resolution_records
             /\ ledger' = ledger
C16_PublishAfterResolve == []C16_AuditHasResolution /\ [][C16_PublishStep]_vars

\* a rejected item was resolved and then published; the audit record carries
\* the forfeiture
C16_Witness ==
    \E e \in DOMAIN audit_records :
        /\ last = Call("publish_evidence", e, None, "PUBLISHED")
        /\ audit_records[e].resolution.resolution_action = "STAKE_FORFEITED"
        /\ Session(e).status = "PUBLISHED"

\* C17: for a resolved evidence id the first publish_evidence call succeeds and
\* every later call returns 'Evidence already published' and changes nothing; an
\* audit record, once written, is never replaced or changed by any operation.
C17_PublishedOnce ==
    [][/\ \A e \in DOMAIN audit_records :
            /\ e \in DOMAIN audit_records'
            /\ audit_records'[e] = audit_records[e]
       /\ last'.op = "publish_evidence"
          => LET e == last'.evidence_id IN
             IF e \in DOMAIN audit_records
             THEN /\ last'.result = "Evidence already published"
                  /\ CoreTablesUnchanged
                  /\ UNCHANGED <<submission_records, bounty_payouts, ledger>>
             ELSE e \in DOMAIN resolution_records
                  => /\ last'.result = "PUBLISHED"
                     /\ e \in DOMAIN audit_records']_vars

\* the second publish call for a published id was refused
C17_Witness ==
    /\ last.op = "publish_evidence"
    /\ last.result = "Evidence already published"
    /\ last.evidence_id \in DOMAIN audit_records
    /\ audit_records[last.evidence_id].status = "PUBLISHED"

\* C18: every bounty record carries the payout calculate_payout defines for its
\* category, stake and verdict: for VERIFIED the category bounty (FINANCIAL
\* 200e6, CONSTRUCTION 300e6, FOOD 150e6, ACADEMIC 100e6), the stake as refund
\* and their sum as total; for INSUFFICIENT the stake as total and no bounty;
\* for REJECTED and every other verdict a total of 0; its status is PAID when
\* the total is positive, FORFEITED when the verdict is REJECTED, else PENDING.
C18_CategoryBounty(category) ==
    CASE category \in {"FINANCIAL", "financial"} -> 200 * MicroAlgosPerAlgo
      [] category = "CONSTRUCTION" -> 300 * MicroAlgosPerAlgo
      [] category = "FOOD" -> 150 * MicroAlgosPerAlgo
      [] category = "ACADEMIC" -> 100 * MicroAlgosPerAlgo
C18_PayoutAsSpecified ==
    \A e \in DOMAIN bounty_payouts :
        LET rec == bounty_payouts[e] IN
        /\ rec.total_payout = rec.bounty_reward + rec.stake_refund
        /\ (rec.verdict = "VERIFIED" /\ Upper(rec.category) \in ValidCategories)
           => /\ rec.bounty_reward = C18_CategoryBounty(rec.category)
              /\ rec.stake_refund = rec.stake_amount_microalgos
        /\ rec.verdict = "INSUFFICIENT"
           => /\ rec.bounty_reward = 0
              /\ rec.total_payout = rec.stake_amount_microalgos
        /\ rec.verdict \notin {"VERIFIED", "INSUFFICIENT"} => rec.total_payout = 0
        /\ rec.status = IF rec.total_payout > 0 THEN "PAID"
                        ELSE IF rec.verdict = "REJECTED" THEN "FORFEITED"
                        ELSE "PENDING"

\* the example of the claim: FINANCIAL, stake 25 ALGO, VERIFIED pays 225 ALGO
C18_Witness ==
    \E e \in DOMAIN bounty_payouts :
        /\ bounty_payouts[e].category = "FINANCIAL"
        /\ bounty_payouts[e].stake_amount_microalgos = 25000000
        /\ bounty_payouts[e].verdict = "VERIFIED"
        /\ bounty_payouts[e].total_payout = 225000000
        /\ bounty_payouts[e].status = "PAID"
        /\ last.op = "process_bounty_payout"

\* C19: a bounty is processed only for an evidence id that has a submission
\* record and a FINALIZED session with verdict VERIFIED, REJECTED or DISPUTED; a
\* process call for an id that has a bounty record is rejected with 'Bounty
\* already processed' and a stored bounty record is never replaced or changed.
C19_BountyOnce ==
    [][/\ \A e \in DOMAIN bounty_payouts :
            /\ e \in DOMAIN bounty_payouts'
            /\ bounty_payouts'[e] = bounty_payouts[e]
       /\ last'.op = "api_process_bounty"
          => LET e == last'.evidence_id IN
             /\ bounty_payouts' # bounty_payouts
                => /\ e \in DOMAIN submission_records
                   /\ HasSession(e)
                   /\ Session(e).phase = "FINALIZED"
                   /\ Session(e).final_verdict \in BountyVerdicts
             /\ e \in DOMAIN bounty_payouts
                => last'.result = "Bounty already processed for this evidence"]_vars

\* C20: the lifecycle status of an evidence item, as stored on its submission
\* record, as stored on its session and as reported by get_verification_status,
\* never moves to an earlier place in the order PENDING, UNDER_VERIFICATION,
\* VERIFIED/REJECTED/DISPUTED, RESOLVED, PUBLISHED.
C20_Rank(status) ==
    CASE status \in {"PENDING", "NO_VERIFICATION_SESSION"} -> 0
      [] status = "UNDER_VERIFICATION" -> 1
      [] status \in {"VERIFIED", "REJECTED", "DISPUTED"} -> 2
      [] status = "RESOLVED" -> 3
      [] status = "PUBLISHED" -> 4
C20_StoredStatusAdvances ==
    \A e \in EvidenceIds :
        /\ e \in DOMAIN submission_records
           => C20_Rank(submission_records[e].status)
                 <= C20_Rank(submission_records'[e].status)
        /\ HasSession(e)
           => C20_Rank(Session(e).status) <= C20_Rank(verification_sessions'[e].status)
C20_ReportedStatusAdvances ==
    \A e \in EvidenceIds :
        C20_Rank(get_verification_status(e).status)
            <= C20_Rank(get_verification_status(e).status)'
C20_StatusMonotonic ==
    [][C20_StoredStatusAdvances /\ C20_ReportedStatusAdvances]_vars

\* the category minimums and the maximum as the claims state them, in
\* micro-units; categories are matched without regard to case
StatedMinimum(category) ==
    CASE category \in {"FINANCIAL", "financial"} -> 25 * 1000000
      [] category = "CONSTRUCTION" -> 50 * 1000000
      [] category = "FOOD" -> 25 * 1000000
      [] category = "ACADEMIC" -> 15 * 1000000
StatedCategories == {"FINANCIAL", "financial", "CONSTRUCTION", "FOOD", "ACADEMIC"}
StatedMaximum == 500 * 1000000

\* C21: a submission with stake 0, or with a stake from the category minimum to
\* 500,000,000 micro-units inclusive, is accepted and recorded; one with a
\* positive stake below the minimum or a stake above the maximum is rejected
\* and the submission store is unchanged.
C21_StakeLimits ==
    [][(/\ last'.op = "submit_evidence"
        /\ last'.args.category \in StatedCategories
        /\ last'.args.stake # NoStake)
       => LET s == last'.args.stake
              min == StatedMinimum(last'.args.category)
          IN  IF s = 0 \/ (min <= s /\ s <= StatedMaximum)
              THEN /\ last'.result = "PENDING"
                   /\ last'.evidence_id \in DOMAIN submission_records'
              ELSE /\ (0 < s /\ s < min) => last'.result = "Stake too low"
                   /\ s > StatedMaximum => last'.result = "Stake exceeds maximum"
                   /\ last'.result # "PENDING"
                   /\ submission_records' = submission_records]_vars

\* a submission with the maximum stake is on record and one with a unit more
\* was refused
C21_Witness ==
    /\ last.op = "submit_evidence"
    /\ last.args.stake = 500000001
    /\ last.result = "Stake exceeds maximum"
    /\ \E e \in DOMAIN submission_records :
          submission_records[e].stake_amount_microalgos = 500000000

\* C22: validate_stake_amount raises 'Stake too low' iff the stake is below the
\* category minimum (FINANCIAL 25e6, CONSTRUCTION 50e6, FOOD 25e6, ACADEMIC
\* 15e6), stake 0 included, raises 'Stake exceeds maximum' iff the stake is
\* above 500,000,000, and returns for every stake from the minimum to the
\* maximum inclusive.
C22_ValidateStake ==
    (/\ last.op = "validate_stake_amount"
     /\ last.args.category \in StatedCategories)
    => LET s == last.args.stake
           min == StatedMinimum(last.args.category)
       IN  /\ last.result = "Stake too low" <=> s < min
           /\ last.result = "Stake exceeds maximum" <=> s > StatedMaximum
           /\ last.result = "valid" <=> (min <= s /\ s <= StatedMaximum)

\* stake 0 was refused as too low
C22_Witness ==
    /\ last.op = "validate_stake_amount"
    /\ last.args = [category |-> "FINANCIAL", stake |-> 0]
    /\ last.result = "Stake too low"

\* C23: a commit_verdict call made after the session's window deadline, even
\* one second after, is rejected and the session (commit table, phase) is
\* unchanged; a call at or before the deadline by a panel member who has not
\* committed, in phase COMMIT, is accepted and its commit is stored.
C23_CommitWithinWindow ==
    [][(/\ last'.op = "commit_verdict"
        /\ now' = now
        /\ HasSession(last'.evidence_id))
       => LET e == last'.evidence_id
              a == last'.inspector
          IN  /\ now > Session(e).window_end
                 => /\ last'.result # "committed"
                    /\ verification_sessions' = verification_sessions
              /\ (/\ now <= Session(e).window_end
                  /\ Session(e).phase = "COMMIT"
                  /\ a \in Session(e).assigned_inspectors
                  /\ a \notin DOMAIN Session(e).commits)
                 => /\ last'.result = "committed"
                    /\ a \in DOMAIN verification_sessions'[e].commits]_vars

\* one panel member committed in the last second of the window, another was
\* refused one second later
C23_Witness ==
    /\ last.op = "commit_verdict"
    /\ last.result = "Verification window has expired"
    /\ HasSession(last.evidence_id)
    /\ now = Session(last.evidence_id).window_end + 1
    /\ \E a \in DOMAIN Session(last.evidence_id).commits :
          Session(last.evidence_id).commits[a].timestamp
              = Session(last.evidence_id).window_end

\* C24: a reveal_verdict call made after the session's window deadline is
\* rejected and no reveal is stored.
C24_RevealWithinWindow ==
    [][(/\ last'.op = "reveal_verdict"
        /\ now' = now
        /\ HasSession(last'.evidence_id)
        /\ now > Session(last'.evidence_id).window_end)
       => /\ last'.result # "revealed"
          /\ verification_sessions' = verification_sessions]_vars

\* C25: a call of register_inspector, begin_verification, commit_verdict,
\* advance_to_reveal, reveal_verdict, finalize_verification, resolve_evidence
\* or publish_evidence that returns an error (or raises) leaves the sessions,
\* the inspector registry, the reputations and the resolution, bounty and
\* audit records as they were.
C25_Operations ==
    {"register_inspector", "begin_verification", "commit_verdict", "advance_to_reveal",
     "reveal_verdict", "finalize_verification", "resolve_evidence", "publish_evidence"}
C25_SuccessResults ==
    {"registered", "UNDER_VERIFICATION", "committed", "advanced_to_reveal", "revealed",
     "VERIFIED", "REJECTED", "DISPUTED", "RESOLVED", "PUBLISHED"}
C25_FailedCallChangesNothing ==
    [][(last'.op \in C25_Operations /\ last'.result \notin C25_SuccessResults)
       => /\ CoreTablesUnchanged
          /\ UNCHANGED <<bounty_payouts, submission_records, ledger>>]_vars

\* finalize_verification was refused for want of reveals while the session
\* holds a reveal and its inspector has a reputation that a tally would change
C25_Witness ==
    /\ last.op = "finalize_verification"
    /\ last.result = "Need at least MIN_INSPECTORS reveals to finalize"
    /\ HasSession(last.evidence_id)
    /\ \E a \in DOMAIN Session(last.evidence_id).reveals :
          /\ a \in DOMAIN inspector_reputation
          /\ inspector_reputation[a].total_votes = 0

\* C26: when the ledger call of finalize_verification, resolve_evidence or
\* publish_evidence fails, the off-chain transition still takes place (phase
\* FINALIZED, resolution record written, audit record written), the call
\* returns success, and the error is recorded on the written record: under
\* finalize_error on the session, under on_chain_error on the resolution
\* record, under publish_error on the audit record.
C26_Methods == {"finalize_verification", "resolve_evidence", "publish_evidence"}
C26_FailedCalls ==
    {i \in 1..Len(ledger) : ledger[i].method \in C26_Methods /\ ledger[i].outcome \in {"error", "rejected"}}
C26_ErrorOnRecord ==
    \A i \in C26_FailedCalls :
        LET e == ledger[i].evidence_id IN
        CASE ledger[i].method = "finalize_verification" ->
                /\ HasSession(e)
                /\ Session(e).final_verdict = ledger[i].status
                /\ Session(e).finalize_error = "error"
          [] ledger[i].method = "resolve_evidence" ->
                /\ e \in DOMAIN resolution_records
                /\ resolution_records[e].on_chain_error = ledger[i].outcome
                /\ resolution_records[e].on_chain_tx = None
          [] ledger[i].method = "publish_evidence" ->
                /\ e \in DOMAIN audit_records
                /\ audit_records[e].publish_error = "error"
                /\ audit_records[e].publish_tx_id = None
C26_FailedCallStep ==
    (/\ Len(ledger') = Len(ledger) + 1
     /\ ledger'[Len(ledger')].method \in C26_Methods
     /\ ledger'[Len(ledger')].outcome \in {"error", "rejected"})
    => LET call == ledger'[Len(ledger')] IN
       /\ last'.op = call.method
       /\ last'.result \in {"VERIFIED", "REJECTED", "DISPUTED", "RESOLVED", "PUBLISHED"}
       /\ call.method = "finalize_verification"
          => verification_sessions'[call.evidence_id].phase = "FINALIZED"
       /\ call.method = "resolve_evidence"
          => call.evidence_id \notin DOMAIN resolution_records
       /\ call.method = "publish_evidence"
          => call.evidence_id \notin DOMAIN audit_records
C26_LedgerFailureAnnotated == []C26_ErrorOnRecord /\ [][C26_FailedCallStep]_vars

\* the claim as stated: the error of each of the three calls is found under
\* the key on_chain_error of the record the call wrote
C26_KeyOf(record) ==
    IF "on_chain_error" \in DOMAIN record THEN record.on_chain_error ELSE None
C26_ErrorUnderOnChainError ==
    \A i \in C26_FailedCalls :
        LET e == ledger[i].evidence_id IN
        CASE ledger[i].method = "finalize_verification" ->
                HasSession(e) /\ C26_KeyOf(Session(e)) # None
          [] ledger[i].method = "resolve_evidence" ->
                e \in DOMAIN resolution_records /\ C26_KeyOf(resolution_records[e]) # None
          [] ledger[i].method = "publish_evidence" ->
                e \in DOMAIN audit_records /\ C26_KeyOf(audit_records[e]) # None

\* all three ledger calls of one evidence item failed and the item is
\* finalized, resolved and published
C26_Witness ==
    \E e \in DOMAIN audit_records :
        /\ audit_records[e].publish_error = "error"
        /\ resolution_records[e].on_chain_error = "error"
        /\ Session(e).finalize_error = "error"
        /\ Session(e).status = "PUBLISHED"
        /\ {ledger[i].method : i \in C26_FailedCalls} = C26_Methods

\* C27: after each finalization an inspector with total_votes >= 3 has
\* credibility_weight = max(0.1, 1 - 0.5 * outlier_count / total_votes), to the
\* three decimals the reputation record keeps, and an inspector with fewer
\* than 3 votes has weight 1.0; an outlier in 4 of 5 votes has weight 0.6; and
\* the stored weight is the one each reveal counts with in the next tally.
C27_Nearest(w, num, den) ==
    /\ 2 * w * den - 2 * num <= den
    /\ 2 * num - 2 * w * den <= den
C27_IsWeight(w, outliers, total) ==
    IF total < 3 THEN w = 1000
    ELSE IF 1000 * total - 500 * outliers <= 100 * total THEN w = 100
    ELSE C27_Nearest(w, 1000 * total - 500 * outliers, total)
C27_StoredWeights ==
    /\ \A a \in DOMAIN inspector_reputation :
          C27_IsWeight(inspector_reputation[a].credibility_weight,
                       inspector_reputation[a].outlier_count,
                       inspector_reputation[a].total_votes)
    /\ UpdatedReputation([total_votes |-> 4, consensus_matches |-> 1, outlier_count |-> 3,
                          consistency_score |-> 250, credibility_weight |-> 625],
                         VERDICT_FAKE, VERDICT_AUTHENTIC).credibility_weight = 600
C27_Sum(reveals, verdicts) ==
    SumOver({a \in DOMAIN reveals : reveals[a].verdict \in verdicts},
            [a \in DOMAIN reveals |-> inspector_reputation[a].credibility_weight])
C27_TallyUsesStoredWeights ==
    (last'.op = "finalize_verification" /\ last'.result \in FinalStatuses)
    => LET e == last'.evidence_id
           reveals == Session(e).reveals
           shares == verification_sessions'[e].vote_breakdown
       IN  /\ \A a \in DOMAIN reveals : a \in DOMAIN inspector_reputation
           /\ C27_Nearest(shares.AUTHENTIC, 1000 * C27_Sum(reveals, {1}),
                          C27_Sum(reveals, {1, 2, 3}))
           /\ C27_Nearest(shares.FAKE, 1000 * C27_Sum(reveals, {2}),
                          C27_Sum(reveals, {1, 2, 3}))
           /\ C27_Nearest(shares.INCONCLUSIVE, 1000 * C27_Sum(reveals, {3}),
                          C27_Sum(reveals, {1, 2, 3}))
C27_CredibilityWeight == []C27_StoredWeights /\ [][C27_TallyUsesStoredWeights]_vars

\* a finalized tally of two AUTHENTIC reveals at weight 1.0 and one FAKE reveal
\* that counted at weight 0.5 (3 outliers in 3 votes): FAKE share 20.0 %; the
\* inspector now has 4 outliers in 4 votes; another inspector has reached 3
\* votes with one outlier (weight 0.833) and a third one has 2 votes
C27_Witness ==
    /\ last.op = "finalize_verification"
    /\ \E e \in Sessions, a \in DOMAIN inspector_reputation :
          /\ Session(e).phase = "FINALIZED"
          /\ a \in DOMAIN Session(e).reveals
          /\ Session(e).reveals[a].verdict = VERDICT_FAKE
          /\ Session(e).vote_breakdown.FAKE = 200
          /\ inspector_reputation[a].total_votes = 4
          /\ inspector_reputation[a].outlier_count = 4
          /\ inspector_reputation[a].credibility_weight = 500
    /\ \E b \in DOMAIN inspector_reputation :
          /\ inspector_reputation[b].total_votes = 3
          /\ inspector_reputation[b].outlier_count = 1
          /\ inspector_reputation[b].credibility_weight = 833
    /\ \E c \in DOMAIN inspector_reputation :
          /\ inspector_reputation[c].total_votes = 2
          /\ inspector_reputation[c].credibility_weight = 1000

\* C28: begin_verification for an evidence id that already has a session
\* returns an error and leaves the session (panel, phase, deadline, commits,
\* reveals) and every inspector's cases_assigned list unchanged; the panel and
\* the deadline of a session, once created, never change, so at most one
\* session and one panel ever exist per evidence id.
C28_SecondBeginRefused ==
    (last'.op = "begin_verification" /\ last'.evidence_id \in Sessions)
    => /\ last'.result = "Verification already started for this evidence"
       /\ UNCHANGED <<verification_sessions, inspector_registry, inspector_reputation>>
C28_OnePanel ==
    \A e \in Sessions :
        /\ e \in DOMAIN verification_sessions'
        /\ verification_sessions'[e].assigned_inspectors = Session(e).assigned_inspectors
        /\ verification_sessions'[e].window_end = Session(e).window_end
        /\ verification_sessions'[e].started_timestamp = Session(e).started_timestamp
        /\ \A a \in DOMAIN inspector_registry :
              /\ a \in DOMAIN inspector_registry'
              /\ Len(SelectSeq(inspector_registry'[a].cases_assigned, LAMBDA c : c = e)) <= 1
C28_OneSessionPerEvidence == [][C28_SecondBeginRefused /\ C28_OnePanel]_vars

\* a second begin_verification refused on a session that already holds a commit
C28_Witness ==
    /\ last.op = "begin_verification"
    /\ last.result = "Verification already started for this evidence"
    /\ HasSession(last.evidence_id)
    /\ Session(last.evidence_id).commits # EmptyMap
    /\ \A a \in Session(last.evidence_id).assigned_inspectors :
          Len(SelectSeq(inspector_registry[a].cases_assigned,
                        LAMBDA c : c = last.evidence_id)) = 1

\* C29: a successful begin_verification assigns exactly 3 distinct active
\* registered inspectors, all of them specialists of the category when at least
\* 3 active specialists are registered and otherwise drawn from the full active
\* pool; with fewer than 3 active inspectors the call is rejected, no session
\* is created and no cases_assigned list changes.
C29_ActivePool == {a \in DOMAIN inspector_registry : inspector_registry[a].active = TRUE}
C29_Specialists(category) ==
    {a \in C29_ActivePool : category \in inspector_registry[a].specializations}
C29_PanelStep ==
    (last'.op = "begin_verification" /\ last'.evidence_id \notin Sessions)
    => LET e == last'.evidence_id IN
       IF Cardinality(C29_ActivePool) < 3
       THEN /\ last'.result = "Not enough inspectors in pool"
            /\ UNCHANGED <<verification_sessions, inspector_registry>>
       ELSE /\ last'.result = "UNDER_VERIFICATION"
            /\ e \in DOMAIN verification_sessions'
            /\ LET panel == verification_sessions'[e].assigned_inspectors
                   category == verification_sessions'[e].category
               IN  /\ Cardinality(panel) = 3
                   /\ panel \subseteq C29_ActivePool
                   /\ Cardinality(C29_Specialists(category)) >= 3
                         => panel \subseteq C29_Specialists(category)
                   /\ DOMAIN inspector_registry' = DOMAIN inspector_registry
                   /\ \A a \in DOMAIN inspector_registry :
                         inspector_registry'[a].cases_assigned =
                            IF a \in panel
                            THEN Append(inspector_registry[a].cases_assigned, e)
                            ELSE inspector_registry[a].cases_assigned
C29_PanelOfThree == [][C29_PanelStep]_vars

\* with three FINANCIAL specialists and one FOOD specialist registered, a
\* FINANCIAL case has just been given the three specialists, and a FOOD case
\* has a panel drawn from the full pool that includes a FINANCIAL specialist
C29_Witness ==
    /\ last.op = "begin_verification"
    /\ last.result = "UNDER_VERIFICATION"
    /\ Cardinality(C29_ActivePool) = 4
    /\ Session(last.evidence_id).category = "FINANCIAL"
    /\ Session(last.evidence_id).assigned_inspectors = C29_Specialists("FINANCIAL")
    /\ \E e \in Sessions :
          /\ Session(e).category = "FOOD"
          /\ Session(e).assigned_inspectors \cap C29_Specialists("FINANCIAL") # {}
          /\ Session(e).assigned_inspectors \cap C29_Specialists("FOOD") # {}

\* C30: advance_to_reveal succeeds only when the session is in phase COMMIT
\* with at least 3 commits stored, and then sets the phase to REVEAL; called in
\* phase REVEAL or FINALIZED, or with fewer than 3 commits, it returns an error
\* and leaves the session unchanged.
C30_AdvanceStep ==
    last'.op = "advance_to_reveal"
    => LET e == last'.evidence_id IN
       IF /\ e \in Sessions
          /\ Session(e).phase = "COMMIT"
          /\ Cardinality(DOMAIN Session(e).commits) >= 3
       THEN /\ last'.result = "advanced_to_reveal"
            /\ verification_sessions'[e].phase = "REVEAL"
       ELSE /\ last'.result # "advanced_to_reveal"
            /\ UNCHANGED verification_sessions
C30_AdvanceOnlyFromCommit == [][C30_AdvanceStep]_vars

\* C31: an accepted commit that makes the session's commit count equal to its
\* panel size sets the phase to REVEAL in that same commit_verdict call; an
\* accepted commit that leaves the count below the panel size leaves the phase
\* at COMMIT.
C31_CommitStep ==
    (last'.op = "commit_verdict" /\ last'.result = "committed")
    => LET e == last'.evidence_id
           after == verification_sessions'[e]
       IN  /\ e \in Sessions
           /\ Session(e).phase = "COMMIT"
           /\ DOMAIN after.commits = DOMAIN Session(e).commits \cup {last'.inspector}
           /\ last'.inspector \notin DOMAIN Session(e).commits
           /\ Cardinality(DOMAIN after.commits) <= Cardinality(after.assigned_inspectors)
           /\ after.phase =
                 IF Cardinality(DOMAIN after.commits) = Cardinality(after.assigned_inspectors)
                 THEN "REVEAL" ELSE "COMMIT"
C31_AutoAdvance == [][C31_CommitStep]_vars

\* the commit of the last panel member has just moved the session to REVEAL
C31_Witness ==
    /\ last.op = "commit_verdict"
    /\ last.result = "committed"
    /\ HasSession(last.evidence_id)
    /\ Session(last.evidence_id).phase = "REVEAL"
    /\ DOMAIN Session(last.evidence_id).commits = Session(last.evidence_id).assigned_inspectors
    /\ Session(last.evidence_id).reveals = EmptyMap

\* C32: for a session finalized as DISPUTED, resolve_evidence issues one ledger
\* call with status code 2 that the on-chain program accepts (no payment,
\* total_forfeited unchanged, only the status updated), and the resolution is
\* recorded as STAKE_LOCKED with a ledger transaction id and no on-chain error
\* whenever the ledger client reached the program.
C32_ResolveCalls(e) ==
    {i \in 1..Len(ledger) : ledger[i].method = "resolve_evidence" /\ ledger[i].evidence_id = e}
C32_DisputedResolveAccepted ==
    \A e \in DOMAIN resolution_records :
        resolution_records[e].verification_verdict = "DISPUTED"
        => /\ resolution_records[e].resolution_action = "STAKE_LOCKED"
           /\ Cardinality(C32_ResolveCalls(e)) = 1
           /\ \A i \in C32_ResolveCalls(e) :
                 /\ ledger[i].status_code = 2
                 /\ ledger[i].outcome # "rejected"
                 /\ ledger[i].outcome = "tx"
                       => /\ resolution_records[e].on_chain_tx # None
                          /\ resolution_records[e].on_chain_error = None

\* C33: cancel_scheduled_publication succeeds only while the current time is
\* before the item's publish_at and is refused at or after it;
\* check_pending_publications returns exactly the queue items whose status is
\* SCHEDULED and whose publish_at has elapsed, so a cancelled item is never
\* returned as due.
C33_Items(due) == {due[k] : k \in 1..Len(due)}
C33_CancelStep ==
    (last'.op = "cancel_scheduled_publication" /\ now' = now /\ last' # last)
    => LET e == last'.evidence_id
           scheduled == {i \in 1..Len(publication_queue) :
                            /\ publication_queue[i].evidence_id = e
                            /\ publication_queue[i].status = "SCHEDULED"}
       IN  IF last'.result = "cancelled"
           THEN \E i \in scheduled :
                   /\ now < publication_queue[i].publish_at
                   /\ publication_queue' =
                         [publication_queue EXCEPT ![i].status = "CANCELLED"]
           ELSE /\ publication_queue' = publication_queue
                /\ \/ scheduled = {}
                   \/ \E i \in scheduled :
                         /\ \A j \in scheduled : i <= j
                         /\ now >= publication_queue[i].publish_at
C33_CheckStep ==
    (last'.op = "check_pending_publications" /\ now' = now)
    => /\ publication_queue' = publication_queue
       /\ \A i \in 1..Len(publication_queue) :
             publication_queue[i] \in C33_Items(last'.due)
             <=> /\ publication_queue[i].status = "SCHEDULED"
                 /\ publication_queue[i].publish_at <= now
       /\ \A item \in C33_Items(last'.due) :
             /\ item.status # "CANCELLED"
             /\ \E i \in 1..Len(publication_queue) : publication_queue[i] = item
C33_CancelAndDue == [][C33_CancelStep /\ C33_CheckStep]_vars

\* a check after the publish time returns a scheduled item and leaves out a
\* cancelled item whose publish time has elapsed as well
C33_Witness ==
    /\ last.op = "check_pending_publications"
    /\ last.due # <<>>
    /\ \E i \in 1..Len(publication_queue) :
          /\ publication_queue[i].status = "CANCELLED"
          /\ publication_queue[i].publish_at <= now
          /\ publication_queue[i] \notin C33_Items(last.due)

\* C39: after cancel_scheduled_publication(id) has returned 'cancelled',
\* check_pending_publications never returns a queue item of that evidence id,
\* however often schedule_publication was called for the id.
C39_Cancelled ==
    {publication_queue[i].evidence_id : i \in {j \in 1..Len(publication_queue) :
                                                publication_queue[j].status = "CANCELLED"}}
C39_CancelledNeverDue ==
    [][(last'.op = "check_pending_publications" /\ now' = now)
       => \A item \in C33_Items(last'.due) : item.evidence_id \notin C39_Cancelled]_vars

\* C34: in every reachable state a session in phase COMMIT has fewer than 3
\* stored commits (the panel has exactly 3 members and the third commit
\* advances the phase), so advance_to_reveal is never the step that moves a
\* session from COMMIT to REVEAL, and a session that has been finalized has a
\* commit and a reveal of every panel member.
C34_Sessions ==
    \A e \in Sessions :
        /\ Cardinality(Session(e).assigned_inspectors) = 3
        /\ Session(e).phase = "COMMIT" => Cardinality(DOMAIN Session(e).commits) < 3
        /\ Session(e).final_verdict # None
              => /\ DOMAIN Session(e).commits = Session(e).assigned_inspectors
                 /\ DOMAIN Session(e).reveals = Session(e).assigned_inspectors
C34_AdvanceStep ==
    \A e \in Sessions :
        (Session(e).phase = "COMMIT" /\ verification_sessions'[e].phase # "COMMIT")
        => /\ last'.op = "commit_verdict"
           /\ last'.evidence_id = e
           /\ verification_sessions'[e].phase = "REVEAL"
C34_ThirdCommitAdvances == []C34_Sessions /\ [][C34_AdvanceStep]_vars

\* advance_to_reveal just refused on a session in phase COMMIT that holds two
\* commits
C34_Witness ==
    /\ last.op = "advance_to_reveal"
    /\ last.result = "Need at least MIN_INSPECTORS commits before reveal phase"
    /\ HasSession(last.evidence_id)
    /\ Session(last.evidence_id).phase = "COMMIT"
    /\ Cardinality(DOMAIN Session(last.evidence_id).commits) = 2

\* C35: each session's reveals update the reputations exactly once: in every
\* reachable state each inspector's total_votes equals the number of FINALIZED
\* sessions that hold a reveal of that inspector, however often
\* finalize_verification is invoked on a session.
C35_FinalizedWithReveal(a) ==
    {e \in Sessions : Session(e).phase = "FINALIZED" /\ a \in DOMAIN Session(e).reveals}
C35_VotesCountedOnce ==
    \A a \in DOMAIN inspector_reputation :
        inspector_reputation[a].total_votes = Cardinality(C35_FinalizedWithReveal(a))

\* C36: for every resolved evidence id the verdict stored in the resolution
\* record, and the action derived from it, equal the session's current
\* final_verdict in every later state, and so does the verdict of the bounty
\* record.
C36_ActionOf(verdict) ==
    CASE verdict = "VERIFIED" -> "STAKE_RELEASED"
      [] verdict = "REJECTED" -> "STAKE_FORFEITED"
      [] OTHER -> "STAKE_LOCKED"
C36_RecordsAgree ==
    \A e \in DOMAIN resolution_records :
        /\ e \in Sessions
        /\ resolution_records[e].verification_verdict = Session(e).final_verdict
        /\ resolution_records[e].resolution_action = C36_ActionOf(Session(e).final_verdict)
        /\ e \in DOMAIN bounty_payouts
              => bounty_payouts[e].verdict = Session(e).final_verdict

\* C37: for every submission made through POST /evidence/submit whose
\* transaction group the ledger approved, the stake recorded in the submission
\* store equals the amount the group paid into the escrow account; a free-tier
\* submission (recorded stake 0) paid nothing.
C37_SubmitGroups ==
    {i \in 1..Len(ledger) : /\ ledger[i].method = "submit_evidence"
                            /\ ledger[i].outcome = "tx"
                            /\ ledger[i].evidence_id \in DOMAIN submission_records}
C37_RecordedStakeIsPaid ==
    \A i \in C37_SubmitGroups :
        submission_records[ledger[i].evidence_id].stake_amount_microalgos
            = ledger[i].amount

\* C38: for every evidence item, the amounts the approved resolve_evidence
\* calls of the item paid out of the escrow (the calls the program ran through
\* resolve_verified) add up to no more than the amounts the approved
\* submit_evidence groups of the item paid in.
C38_Pays(call, method, evidence_id) ==
    /\ call.method = method
    /\ call.evidence_id = evidence_id
    /\ call.outcome = "tx"
    /\ method = "resolve_evidence"
          => method_resolve_evidence(call.status_code) = "resolve_verified"
RECURSIVE C38_Total(_, _, _)
C38_Total(n, method, evidence_id) ==
    IF n = 0 THEN 0
    ELSE C38_Total(n - 1, method, evidence_id)
         + (IF C38_Pays(ledger[n], method, evidence_id) THEN ledger[n].amount ELSE 0)
C38_RefundWithinLockedStake ==
    \A i \in 1..Len(ledger) :
        C38_Total(Len(ledger), "resolve_evidence", ledger[i].evidence_id)
            <= C38_Total(Len(ledger), "submit_evidence", ledger[i].evidence_id)

\* C40: the tables agree in every reachable state: a session's status is
\* RESOLVED or PUBLISHED exactly if a resolution record of its evidence id
\* exists, and PUBLISHED exactly if an audit record exists; every evidence id
\* with a resolution or audit record has a session in phase FINALIZED; and an
\* inspector's cases_assigned holds an evidence id exactly if the inspector is
\* in the panel of its session.
C40_StatusMatchesRecords ==
    \A e \in DOMAIN verification_sessions :
        /\ Session(e).status \in {"RESOLVED", "PUBLISHED"} <=> e \in DOMAIN resolution_records
        /\ Session(e).status = "PUBLISHED" <=> e \in DOMAIN audit_records
C40_RecordsNeedFinalized ==
    \A e \in DOMAIN resolution_records \cup DOMAIN audit_records :
        HasSession(e) /\ Session(e).phase = "FINALIZED"
C40_CasesMatchPanels ==
    \A a \in DOMAIN inspector_registry :
        LET cases == inspector_registry[a].cases_assigned IN
        /\ \A i \in 1..Len(cases) :
              HasSession(cases[i]) /\ a \in Session(cases[i]).assigned_inspectors
        /\ \A e \in DOMAIN verification_sessions :
              a \in Session(e).assigned_inspectors => \E i \in 1..Len(cases) : cases[i] = e
C40_TablesConsistent ==
    /\ C40_StatusMatchesRecords
    /\ C40_RecordsNeedFinalized
    /\ C40_CasesMatchPanels

Next ==
    \/ \E a \in Registrants : register_inspector(a)
    \/ \E e \in EvidenceIds, c \in CategoryInputs : begin_verification(e, c)
    \/ \E e \in EvidenceIds, a \in Inspectors, h \in CommitHashInputs :
            commit_verdict(e, a, h)
    \/ \E e \in EvidenceIds : advance_to_reveal(e)
    \/ \E e \in EvidenceIds, a \in Inspectors, v \in VerdictInputs, n \in Nonces,
          j \in JustificationInputs : reveal_verdict(e, a, v, n, j)
    \/ \E e \in EvidenceIds : finalize_verification(e)
    \/ \E e \in EvidenceIds : resolve_evidence(e)
    \/ \E e \in EvidenceIds : publish_evidence(e)

Spec == Init /\ [][Next]_vars

\* ------------------------------------------------------------------------
\* The verification engine started with inspectors that already have a voting
\* record: each registered inspector has revealed in three finalized sessions of
\* other evidence items, as an outlier in k of them.  No operation on an
\* evidence id reads the session of another one, so those sessions are left
\* out of the table.
RECURSIVE ReputationAfter(_, _)
ReputationAfter(votes, outliers) ==
    IF votes = 0
    THEN [consistency_score |-> 1000, total_votes |-> 0, consensus_matches |-> 0,
          outlier_count |-> 0, credibility_weight |-> FullCredibilityWeight]
    ELSE UpdatedReputation(ReputationAfter(votes - 1, Max(outliers - 1, 0)),
                           IF outliers > 0 THEN VERDICT_FAKE ELSE VERDICT_AUTHENTIC,
                           VERDICT_AUTHENTIC)

PriorVotes == WeightDecayMinVotes
PriorOutliers == {0, 2, 3}
PriorCases == <<"EVD-2026-00002", "EVD-2026-00003", "EVD-2026-00004",
               "EVD-2026-00005", "EVD-2026-00006">>
TallyVerdicts == {1, 2, 3}
TallyJustification == <<81, 109, 65, 98, 49>>

InitTally ==
    /\ now = 0
    /\ configured = FALSE
    /\ \E k \in [Registrants -> PriorOutliers] :
          /\ inspector_reputation =
                [a \in Registrants |-> ReputationAfter(PriorVotes, k[a])]
          /\ inspector_registry =
                [a \in Registrants |->
                    [specializations |-> SpecializationsOf(a),
                     total_inspections |-> PriorVotes,
                     consensus_agreements |-> PriorVotes - k[a],
                     active |-> TRUE,
                     cases_assigned |-> SubSeq(PriorCases, 1, PriorVotes)]]
    /\ verification_sessions = EmptyMap
    /\ resolution_records = EmptyMap
    /\ audit_records = EmptyMap
    /\ submission_records = EmptyMap
    /\ bounty_payouts = EmptyMap
    /\ publication_queue = <<>>
    /\ ledger = <<>>
    /\ requests = [r \in RequestIds |-> NoRequest]
    /\ last = NoCall

NextTally ==
    \/ \E e \in EvidenceIds, c \in CategoryInputs : begin_verification(e, c)
    \/ \E e \in EvidenceIds, a \in Registrants, v \in TallyVerdicts, n \in CommitNonces :
            commit_verdict(e, a, generate_commit_hash(v, n))
    \/ \E e \in EvidenceIds, a \in Registrants, v \in TallyVerdicts, n \in CommitNonces :
            reveal_verdict(e, a, v, n, TallyJustification)
    \/ \E e \in EvidenceIds : finalize_verification(e)

SpecTally == InitTally /\ [][NextTally]_vars
\* ------------------------------------------------------------------------
\* Verification and resolution of one evidence item with the ledger configured
\* and two POST /resolution/resolve requests.  The three inspectors are
\* registered and have revealed with the consensus in finalized sessions of
\* other evidence items, one fewer than the bound on votes.  The evidence item
\* was submitted through POST /evidence/submit with a stake of 25 ALGO: its
\* submission record and the approved ledger call that made its box exist.
SeededVotes == MaxVotes - 1
SeededRegistry(votes) ==
    [a \in Registrants |->
        [specializations |-> SpecializationsOf(a),
         total_inspections |-> votes,
         consensus_agreements |-> votes,
         active |-> TRUE,
         cases_assigned |-> SubSeq(PriorCases, 1, votes)]]
LifecycleVerdicts == {VERDICT_AUTHENTIC, VERDICT_FAKE}

Wallet == "WALLET1"
SeededEvidence == "EVD-2026-00001"
SeededStake == MIN_STAKE_MICROALGOS("FINANCIAL")
InitResolution ==
    /\ now = 0
    /\ configured = TRUE
    /\ inspector_reputation = [a \in Registrants |-> ReputationAfter(SeededVotes, 0)]
    /\ inspector_registry = SeededRegistry(SeededVotes)
    /\ verification_sessions = EmptyMap
    /\ resolution_records = EmptyMap
    /\ audit_records = EmptyMap
    /\ submission_records =
          Put(EmptyMap, SeededEvidence, SubmissionRecord(Wallet, SeededStake, "FINANCIAL"))
    /\ bounty_payouts = EmptyMap
    /\ publication_queue = <<>>
    /\ ledger = <<[Paying(LedgerCall("submit_evidence", SeededEvidence, -1, "PENDING"),
                           SeededStake) EXCEPT !.outcome = "tx"]>>
    /\ requests = [r \in RequestIds |-> NoRequest]
    /\ last = NoCall

NextResolution ==
    \/ \E e \in EvidenceIds, c \in CategoryInputs : begin_verification(e, c)
    \/ \E e \in EvidenceIds, a \in Registrants, v \in LifecycleVerdicts, n \in CommitNonces :
            commit_verdict(e, a, generate_commit_hash(v, n))
    \/ \E e \in EvidenceIds : advance_to_reveal(e)
    \/ \E e \in EvidenceIds, a \in Registrants, v \in LifecycleVerdicts, n \in CommitNonces :
            reveal_verdict(e, a, v, n, TallyJustification)
    \/ \E e \in EvidenceIds : finalize_verification(e)
    \/ \E r \in RequestIds, e \in EvidenceIds : api_resolve_received(r, e)
    \/ \E r \in RequestIds : api_resolve_evidence(r)

SpecResolution == InitResolution /\ [][NextResolution]_vars

\* ------------------------------------------------------------------------
\* The life of one evidence item from submission to publication and bounty,
\* without a ledger
\* stake_amount inputs: free tier, the FINANCIAL minimum (25 ALGO), below it
LifecycleStakes == {0, 25000000, 10000000}

InitLifecycle ==
    /\ now = 0
    /\ configured = FALSE
    /\ inspector_reputation = [a \in Registrants |-> ReputationAfter(SeededVotes, 0)]
    /\ inspector_registry = SeededRegistry(SeededVotes)
    /\ verification_sessions = EmptyMap
    /\ resolution_records = EmptyMap
    /\ audit_records = EmptyMap
    /\ submission_records = EmptyMap
    /\ bounty_payouts = EmptyMap
    /\ publication_queue = <<>>
    /\ ledger = <<>>
    /\ requests = [r \in RequestIds |-> NoRequest]
    /\ last = NoCall

NextLifecycle ==
    \/ \E e \in EvidenceIds, c \in CategoryInputs, s \in LifecycleStakes :
            submit_evidence(e, c, s, Wallet)
    \/ \E e \in EvidenceIds, c \in CategoryInputs : begin_verification(e, c)
    \/ \E e \in EvidenceIds, a \in Registrants, v \in LifecycleVerdicts, n \in CommitNonces :
            commit_verdict(e, a, generate_commit_hash(v, n))
    \/ \E e \in EvidenceIds : advance_to_reveal(e)
    \/ \E e \in EvidenceIds, a \in Registrants, v \in LifecycleVerdicts, n \in CommitNonces :
            reveal_verdict(e, a, v, n, TallyJustification)
    \/ \E e \in EvidenceIds : finalize_verification(e)
    \/ \E e \in EvidenceIds : resolve_evidence(e)
    \/ \E e \in EvidenceIds : publish_evidence(e)
    \/ \E e \in EvidenceIds : api_process_bounty(e)

SpecLifecycle == InitLifecycle /\ [][NextLifecycle]_vars

\* ------------------------------------------------------------------------
\* The bounty manager called on its own
PayoutCategories == {"FINANCIAL", "CONSTRUCTION", "FOOD", "ACADEMIC", "financial", "OTHER"}
PayoutVerdicts == {"VERIFIED", "INSUFFICIENT", "REJECTED", "DISPUTED", "PENDING"}
PayoutStakes == {0, 25000000, 500000000}

NextPayout ==
    \E e \in EvidenceIds, c \in PayoutCategories, v \in PayoutVerdicts, s \in PayoutStakes :
        process_bounty_payout(e, c, v, Wallet, s)

SpecPayout == Init /\ [][NextPayout]_vars
\* ------------------------------------------------------------------------
\* The stake checks: POST /evidence/submit and validate_stake_amount called
\* with every category and with stakes around the limits
SubmitCategories == {"FINANCIAL", "CONSTRUCTION", "FOOD", "ACADEMIC", "financial", "OTHER"}
SubmitStakes == {NoStake, 0, 249, 14999999, 15000000, 24999999, 25000000,
                 49999999, 50000000, 500000000, 500000001}

NextSubmit ==
    \/ \E e \in EvidenceIds, c \in SubmitCategories, s \in SubmitStakes :
            submit_evidence(e, c, s, Wallet)
    \/ \E c \in SubmitCategories, s \in SubmitStakes \ {NoStake} : validate_stake(c, s)

SpecSubmit == Init /\ [][NextSubmit]_vars
\* ------------------------------------------------------------------------
\* Commits and reveals around the window deadline.  A FINANCIAL session opened
\* at time 0 has its deadline 72 hours later; the clock can move to the
\* deadline and to one second after it.
ClockTimes == {72 * 3600, 72 * 3600 + 1}

NextWindow ==
    \/ \E t \in ClockTimes : clock_advances(t)
    \/ \E e \in EvidenceIds, c \in CategoryInputs : begin_verification(e, c)
    \/ \E e \in EvidenceIds, a \in Registrants, v \in LifecycleVerdicts, n \in CommitNonces :
            commit_verdict(e, a, generate_commit_hash(v, n))
    \/ \E e \in EvidenceIds : advance_to_reveal(e)
    \/ \E e \in EvidenceIds, a \in Registrants, v \in LifecycleVerdicts, n \in CommitNonces :
            reveal_verdict(e, a, v, n, TallyJustification)

SpecWindow == InitLifecycle /\ [][NextWindow]_vars
\* ------------------------------------------------------------------------
\* One evidence item verified, resolved and published with the ledger
\* configured: every ledger call either returns a transaction id or fails
LedgerVerdicts == {VERDICT_AUTHENTIC}

NextLedger ==
    \/ \E e \in EvidenceIds, c \in CategoryInputs : begin_verification(e, c)
    \/ \E e \in EvidenceIds, a \in Registrants, v \in LedgerVerdicts, n \in CommitNonces :
            commit_verdict(e, a, generate_commit_hash(v, n))
    \/ \E e \in EvidenceIds, a \in Registrants, v \in LedgerVerdicts, n \in CommitNonces :
            reveal_verdict(e, a, v, n, TallyJustification)
    \/ \E e \in EvidenceIds : finalize_verification(e)
    \/ \E e \in EvidenceIds : resolve_evidence(e)
    \/ \E e \in EvidenceIds : publish_evidence(e)

SpecLedger == InitResolution /\ [][NextLedger]_vars
\* ------------------------------------------------------------------------
\* One session tallied by inspectors with voting records of different lengths:
\* one vote, two votes with one outlier, three votes all outliers
PriorRecords == {<<1, 0>>, <<2, 1>>, <<3, 3>>}
WeightVerdicts == {VERDICT_AUTHENTIC, VERDICT_FAKE}

InitWeight ==
    /\ now = 0
    /\ configured = FALSE
    /\ \E p \in [Registrants -> PriorRecords] :
          /\ inspector_reputation =
                [a \in Registrants |-> ReputationAfter(p[a][1], p[a][2])]
          /\ inspector_registry =
                [a \in Registrants |->
                    [specializations |-> SpecializationsOf(a),
                     total_inspections |-> p[a][1],
                     consensus_agreements |-> p[a][1] - p[a][2],
                     active |-> TRUE,
                     cases_assigned |-> SubSeq(PriorCases, 1, p[a][1])]]
    /\ verification_sessions = EmptyMap
    /\ resolution_records = EmptyMap
    /\ audit_records = EmptyMap
    /\ submission_records = EmptyMap
    /\ bounty_payouts = EmptyMap
    /\ publication_queue = <<>>
    /\ ledger = <<>>
    /\ requests = [r \in RequestIds |-> NoRequest]
    /\ last = NoCall

NextWeight ==
    \/ \E e \in EvidenceIds, c \in CategoryInputs : begin_verification(e, c)
    \/ \E e \in EvidenceIds, a \in Registrants, v \in WeightVerdicts, n \in CommitNonces :
            commit_verdict(e, a, generate_commit_hash(v, n))
    \/ \E e \in EvidenceIds, a \in Registrants, v \in WeightVerdicts, n \in CommitNonces :
            reveal_verdict(e, a, v, n, TallyJustification)
    \/ \E e \in EvidenceIds : finalize_verification(e)

SpecWeight == InitWeight /\ [][NextWeight]_vars
\* ------------------------------------------------------------------------
\* Registration and panel selection: four inspectors, three of them FINANCIAL
\* specialists and one a FOOD specialist, and two evidence items
PanelEvidenceIds == {"EVD-2026-00001", "EVD-2026-00002"}
PanelCategories == {"FINANCIAL", "FOOD"}

NextPanel ==
    \/ \E a \in Inspectors : register_inspector(a)
    \/ \E e \in PanelEvidenceIds, c \in PanelCategories : begin_verification(e, c)

SpecPanel == Init /\ [][NextPanel]_vars
\* ------------------------------------------------------------------------
\* The publication queue under a moving clock: publications of two evidence
\* items scheduled with a delay of 10 seconds, cancelled and checked at times
\* before, at and after their publish time
QueueEvidenceIds == {"EVD-2026-00001", "EVD-2026-00002"}
QueueDelays == {10}
QueueTimes == {5, 10, 15}

NextQueue ==
    \/ \E t \in QueueTimes : clock_advances(t)
    \/ \E e \in QueueEvidenceIds, d \in QueueDelays : schedule_publication(e, d)
    \/ \E e \in QueueEvidenceIds : cancel_scheduled_publication(e)
    \/ check_pending_publications

SpecQueue == Init /\ [][NextQueue]_vars
\* ------------------------------------------------------------------------
\* One evidence item submitted, verified, resolved and paid, with inspectors
\* whose voting records have different lengths; no advance_to_reveal
VerdictPriors == {<<1, 0>>, <<2, 1>>}
VerdictStakes == {25000000}

InitVerdict ==
    /\ now = 0
    /\ configured = FALSE
    /\ \E p \in [Registrants -> VerdictPriors] :
          /\ inspector_reputation =
                [a \in Registrants |-> ReputationAfter(p[a][1], p[a][2])]
          /\ inspector_registry =
                [a \in Registrants |->
                    [specializations |-> SpecializationsOf(a),
                     total_inspections |-> p[a][1],
                     consensus_agreements |-> p[a][1] - p[a][2],
                     active |-> TRUE,
                     cases_assigned |-> SubSeq(PriorCases, 1, p[a][1])]]
    /\ verification_sessions = EmptyMap
    /\ resolution_records = EmptyMap
    /\ audit_records = EmptyMap
    /\ submission_records = EmptyMap
    /\ bounty_payouts = EmptyMap
    /\ publication_queue = <<>>
    /\ ledger = <<>>
    /\ requests = [r \in RequestIds |-> NoRequest]
    /\ last = NoCall

NextVerdict ==
    \/ \E e \in EvidenceIds, c \in CategoryInputs, s \in VerdictStakes :
            submit_evidence(e, c, s, Wallet)
    \/ \E e \in EvidenceIds, c \in CategoryInputs : begin_verification(e, c)
    \/ \E e \in EvidenceIds, a \in Registrants, v \in LifecycleVerdicts, n \in CommitNonces :
            commit_verdict(e, a, generate_commit_hash(v, n))
    \/ \E e \in EvidenceIds, a \in Registrants, v \in LifecycleVerdicts, n \in CommitNonces :
            reveal_verdict(e, a, v, n, TallyJustification)
    \/ \E e \in EvidenceIds : finalize_verification(e)
    \/ \E e \in EvidenceIds : resolve_evidence(e)
    \/ \E e \in EvidenceIds : api_process_bounty(e)

SpecVerdict == InitVerdict /\ [][NextVerdict]_vars
\* ------------------------------------------------------------------------
\* The escrow: submissions through POST /evidence/submit with the ledger
\* configured, and the verification and resolution of an evidence id whose
\* submit call failed.  The seeded item holds box 1; the next box the program
\* makes has key 7, and the id derived from the clock in 2027 ends in the
\* number of box 1.
EscrowSubmitIds == {"EVD-2026-00007", "EVD-2027-00001"}
EscrowSessionIds == {"EVD-2027-00001"}
EscrowStakes == {NoStake, 25000000}

NextEscrow ==
    \/ \E e \in EscrowSubmitIds, c \in CategoryInputs, s \in EscrowStakes :
            submit_evidence(e, c, s, Wallet)
    \/ \E e \in EscrowSessionIds, c \in CategoryInputs : begin_verification(e, c)
    \/ \E e \in EscrowSessionIds, a \in Registrants, v \in LedgerVerdicts, n \in CommitNonces :
            commit_verdict(e, a, generate_commit_hash(v, n))
    \/ \E e \in EscrowSessionIds, a \in Registrants, v \in LedgerVerdicts, n \in CommitNonces :
            reveal_verdict(e, a, v, n, TallyJustification)
    \/ \E e \in EscrowSessionIds : finalize_verification(e)
    \/ \E e \in EscrowSessionIds : resolve_evidence(e)

SpecEscrow == InitResolution /\ [][NextEscrow]_vars
====
